---- MODULE Spec2Model ----
(***************************************************************************)
(* Model of the Hathaway Metronome v10 beat clock (src/script.js, class     *)
(* MetronomeCore) together with the part of the browser it runs on: the     *)
(* table of armed setInterval timers, the queue of pending setTimeout       *)
(* callbacks and the wall clock read by Date.now(); of the sound path into  *)
(* AudioManager (src/unnamed/part_000); and of the listening loop of        *)
(* MicrophoneInput (src/dist/DEPLOYMENT.md).                                *)
(*                                                                          *)
(* JavaScript handlers run to completion on one thread, so every handler    *)
(* (a method called from the UI, a timer callback) is one atomic action.    *)
(* The methods are operators from object state to object state, composed    *)
(* exactly as the methods call each other.                                  *)
(***************************************************************************)
EXTENDS Integers, Sequences, FiniteSets, TLC

VARIABLES
    m,       \* the MetronomeCore object, the browser's timer table, the
             \* audio system, the MicrophoneInput object (m.mic) and the
             \* trace of what the handler that ran last did (m.events)
    now,     \* Date.now(), in milliseconds
    last,    \* history: the handler that ran last, its argument, what the
             \* object looked like when it was called, and the time of the
             \* latest onset the microphone tracker accepted
    tickNo,  \* history: timer ticks since the latest start() armed its timer
    frameNo  \* history: frames of microphone audio analysed so far

vars == <<m, now, last, tickNo, frameNo>>

-----------------------------------------------------------------------------
(* Program constants *)

MinTempo == 30
MaxTempo == 300
DefaultTempo == 120
MsPerMinute == 60000
MaxTaps == 4
TapIdleMs == 3000

(* Bounds of the model *)

MaxBeatCount == 3
MaxNow == 4000
MaxPendingTimeouts == 2
MaxFreshTicks == 100
TempoMargin == 40
MaxBars == 7
MaxTapNow == 3000
MaxTapsPending == 5
MaxTapBeats == 1
MaxFrames == 3
MaxRequests == 2
MaxPatternBars == 2
MaxTrackerFrames == 7
MaxOnsets == 5
MaxDetectFrames == 3
MaxSpectrumFrames == 3
MaxPhaseBars == 4
BufferLength == 2

(* Inputs *)

TempoInputs == {MinTempo - 1, MinTempo, MaxTempo, MaxTempo + 1}
TempoChanges == {-90, 90}
BeatsInputs == {1, 2}
SignatureInputs == {<<"3", "/", "4">>, <<"1", "2", "/", "8">>}
SubdivisionInputs == {"quarter", "eighth", "sixteenth"}
TimeSteps == {1000, 3000}
TapSteps == {500, 700, 3000}
MaxBeatsPerBar == 12
FreshBeats == 1..MaxBeatsPerBar
WideTempoInputs == (MinTempo - TempoMargin)..(MaxTempo + TempoMargin)
PatternModeInputs == {"none", "pattern"}
PatternBarInputs == {1, 2}
PatternLengths == 1..MaxPatternBars
PhaseLengths == {-1, 0, 1, 2}
PhaseBeats == {1, 2}
EmphasisInputs == {{}, {2}}
BeatSoundInputs == {"classic", "wood", "drum"}
AudioConditions == {"ready", "broken", "absent"}
PageLoadedAt == 100000
Quiet == [volume |-> 0, frequencyVolume |-> 0, onsetStrength |-> 0]
Faint == [volume |-> 30, frequencyVolume |-> 0, onsetStrength |-> 0]
Loud == [volume |-> 500, frequencyVolume |-> 500, onsetStrength |-> 500]
HeardInputs == {Quiet, Faint, Loud}
AtThreshold == [volume |-> 20, frequencyVolume |-> 0, onsetStrength |-> 0]
BandOnly == [volume |-> 0, frequencyVolume |-> 40, onsetStrength |-> 0]
OnsetOnly == [volume |-> 0, frequencyVolume |-> 0, onsetStrength |-> 20]
DetectInputs == {Quiet, AtThreshold, Faint, BandOnly, OnsetOnly, Loud}
DetectGaps == {50, 400}
BinLevels == {0, 10, 200}
Spectra == {[frequencyData |-> data] : data \in [1..BufferLength -> BinLevels]}
DetectionModeInputs == {"bass", "drums", "guitar", "mixed", "piano"}
MinBeatIntervalInputs == {100, 600}
FrameGaps == {400, 2000, 2500}
OnsetGaps == {150, 495, 500, 505, 2500}

-----------------------------------------------------------------------------
(* Arithmetic helpers: Math.max, Math.min, Math.round, Number *)

Max(a, b) == IF a >= b THEN a ELSE b
Min(a, b) == IF a <= b THEN a ELSE b

\* Math.round(n / d) for n >= 0, d > 0: halves round up.
RoundDiv(n, d) == (2 * n + d) \div (2 * d)

DigitValue(c) ==
    CASE c = "0" -> 0 [] c = "1" -> 1 [] c = "2" -> 2 [] c = "3" -> 3
      [] c = "4" -> 4 [] c = "5" -> 5 [] c = "6" -> 6 [] c = "7" -> 7
      [] c = "8" -> 8 [] c = "9" -> 9

RECURSIVE Number(_)
Number(s) ==
    IF s = <<>> THEN 0
    ELSE 10 * Number(SubSeq(s, 1, Len(s) - 1)) + DigitValue(s[Len(s)])

\* signature.split('/'): the text before the first "/" and the text after it
\* (the signatures offered hold exactly one "/").
SlashAt(s) == CHOOSE i \in 1..Len(s) : s[i] = "/"
SplitSignature(s) ==
    <<SubSeq(s, 1, SlashAt(s) - 1), SubSeq(s, SlashAt(s) + 1, Len(s))>>

RECURSIVE SumSeq(_)
SumSeq(s) == IF s = <<>> THEN 0 ELSE s[1] + SumSeq(Tail(s))

-----------------------------------------------------------------------------
(* The browser: setInterval / clearInterval, the notification hook *)

Emit(w, e) == [w EXCEPT !.events = Append(@, e)]

\* The handle setInterval returns: a positive integer not in use.
FreshHandle(w) ==
    CHOOSE i \in 1..(Cardinality(w.timers) + 1) :
        \A t \in w.timers : t.id # i

SetInterval(w, period) ==
    LET id == FreshHandle(w) IN
    Emit([w EXCEPT !.timers = @ \cup {[id |-> id, period |-> period]},
                   !.intervalId = id],
         [e |-> "setInterval", id |-> id, period |-> period])

ClearInterval(w, id) ==
    Emit([w EXCEPT !.timers = {t \in @ : t.id # id}],
         [e |-> "clearInterval", id |-> id])

\* if (this.onBeatChange) this.onBeatChange();
NotifyBeatChange(w) ==
    IF w.onBeatChange
    THEN Emit(w, [e |-> "onBeatChange", beat |-> w.currentBeat,
                  sub |-> w.currentSubdivision, playing |-> w.isPlaying])
    ELSE w

-----------------------------------------------------------------------------
(* MetronomeCore *)

SubdivisionsPerBeat(subdivision) ==
    CASE subdivision = "eighth" -> 2
      [] subdivision = "sixteenth" -> 4
      [] OTHER -> 1

\* (60 / tempo) * 1000 divided by the subdivision's divisor, in milliseconds,
\* kept as the exact fraction num / den.
SubdivisionInterval(tempo, subdivision) ==
    [num |-> MsPerMinute, den |-> tempo * SubdivisionsPerBeat(subdivision)]

\* resetPattern() that forgets the mute flag of the two-bar cycle.
resetPattern_KeepsMuteFlag(w) ==
    [w EXCEPT !.currentBar = 1,
              !.patternPhase = "active",
              !.patternBarsRemaining = w.activeBars,
              !.isSilent = FALSE]

resetPattern(w) ==
    [w EXCEPT !.currentBar = 1,
              !.isCurrentBarMuted = FALSE,
              !.patternPhase = "active",
              !.patternBarsRemaining = w.activeBars,
              !.isSilent = FALSE]

\* What a call into the Web Audio API comes to.  Every such call in the
\* program sits behind a check of the audio context and inside try/catch:
\* without a context the sound is skipped, and an error thrown while the
\* sound is built is caught and logged.
WebAudio(w) ==
    CASE w.audio = "absent" -> "skipped"
      [] w.audio = "broken" -> "failed"
      [] OTHER -> "played"

\* AudioManager.playClick
playClick(w, frequency, volume) ==
    Emit(w, [e |-> "render", via |-> "click",
             beat |-> w.currentBeat, sub |-> w.currentSubdivision,
             frequency |-> frequency, volume |-> volume,
             result |-> WebAudio(w)])

\* AudioManager.playBeat: the synthesis of the selected sound, and the plain
\* click when that synthesis throws.  No method playWoodSynthesis exists, so
\* 'wood' always ends in the fallback.
audioManager_playBeat(w, soundType, beatNumber, isEmphasized) ==
    IF w.audio = "absent"
    THEN Emit(w, [e |-> "render", via |-> soundType,
                  beat |-> beatNumber, sub |-> w.currentSubdivision,
                  isEmphasized |-> isEmphasized, result |-> "skipped"])
    ELSE IF soundType \in {"classic", "wood"} \/ w.audio = "broken"
    THEN playClick(w, IF isEmphasized THEN 1200 ELSE 800,
                      IF isEmphasized THEN 80 ELSE 60)
    ELSE Emit(w, [e |-> "render", via |-> soundType,
                  beat |-> beatNumber, sub |-> w.currentSubdivision,
                  isEmphasized |-> isEmphasized, result |-> "played"])

playClassicClick(w, isEmphasized, isMainBeat) ==
    LET sound == IF isEmphasized THEN [frequency |-> 1200, volume |-> 80]
                 ELSE IF isMainBeat THEN [frequency |-> 800, volume |-> 60]
                 ELSE [frequency |-> 600, volume |-> 30]
    IN Emit(w, [e |-> "render", via |-> "classic",
                beat |-> w.currentBeat, sub |-> w.currentSubdivision,
                isEmphasized |-> isEmphasized, isMainBeat |-> isMainBeat,
                frequency |-> sound.frequency, volume |-> sound.volume,
                result |-> WebAudio(w)])

\* playBeat() that consults the simple mute pattern only.
playBeat_MuteOnly(w) ==
    LET shouldBeSilent == w.mutePatternEnabled /\ w.isCurrentBarMuted
        isMainBeat == w.currentSubdivision = 0
        isEmphasized == w.currentBeat \in w.emphasizedBeats
    IN  IF shouldBeSilent
        THEN Emit(w, [e |-> "silent", beat |-> w.currentBeat,
                      sub |-> w.currentSubdivision])
        ELSE IF ~isMainBeat /\ ~w.playSubdivisionSounds
        THEN Emit(w, [e |-> "suppressed", beat |-> w.currentBeat,
                      sub |-> w.currentSubdivision])
        ELSE IF w.beatSound = "classic"
        THEN playClassicClick(w, isEmphasized, isMainBeat)
        ELSE audioManager_playBeat(w, w.beatSound, w.currentBeat, isEmphasized)

\* playBeat() that renders subdivision ticks whatever playSubdivisionSounds.
playBeat_AllSubdivisions(w) ==
    LET shouldBeSilent == \/ (w.mutePatternEnabled /\ w.isCurrentBarMuted)
                          \/ (w.patternMode = "pattern" /\ w.isSilent)
        isMainBeat == w.currentSubdivision = 0
        isEmphasized == w.currentBeat \in w.emphasizedBeats
    IN  IF shouldBeSilent
        THEN Emit(w, [e |-> "silent", beat |-> w.currentBeat,
                      sub |-> w.currentSubdivision])
        ELSE IF w.beatSound = "classic"
        THEN playClassicClick(w, isEmphasized, isMainBeat)
        ELSE audioManager_playBeat(w, w.beatSound, w.currentBeat, isEmphasized)

playBeat(w) ==
    LET shouldBeSilent == \/ (w.mutePatternEnabled /\ w.isCurrentBarMuted)
                          \/ (w.patternMode = "pattern" /\ w.isSilent)
        isMainBeat == w.currentSubdivision = 0
        isEmphasized == w.currentBeat \in w.emphasizedBeats
    IN  IF shouldBeSilent
        THEN Emit(w, [e |-> "silent", beat |-> w.currentBeat,
                      sub |-> w.currentSubdivision])
        ELSE IF ~isMainBeat /\ ~w.playSubdivisionSounds
        THEN Emit(w, [e |-> "suppressed", beat |-> w.currentBeat,
                      sub |-> w.currentSubdivision])
        ELSE IF w.beatSound = "classic"
        THEN playClassicClick(w, isEmphasized, isMainBeat)
        ELSE audioManager_playBeat(w, w.beatSound, w.currentBeat, isEmphasized)

\* start() without its "already playing" guard.
start_NoGuard(w) ==
    LET w1 == resetPattern([w EXCEPT !.isPlaying = TRUE,
                                     !.currentBeat = 1,
                                     !.currentSubdivision = 0])
        w2 == NotifyBeatChange(playBeat(w1))
    IN SetInterval(w2, SubdivisionInterval(w2.tempo, w2.subdivision))

\* start() without its call of resetPattern().
start_NoReset(w) ==
    IF w.isPlaying THEN w
    ELSE LET w1 == [w EXCEPT !.isPlaying = TRUE,
                             !.currentBeat = 1,
                             !.currentSubdivision = 0]
             w2 == NotifyBeatChange(playBeat(w1))
         IN SetInterval(w2, SubdivisionInterval(w2.tempo, w2.subdivision))

\* start() that an error thrown by the renderer leaves half done: running,
\* but with no timer armed.
start_RenderThrows(w) ==
    IF w.isPlaying THEN w
    ELSE LET w1 == resetPattern([w EXCEPT !.isPlaying = TRUE,
                                          !.currentBeat = 1,
                                          !.currentSubdivision = 0])
             w2 == playBeat(w1)
             w3 == NotifyBeatChange(w2)
         IN IF \E i \in 1..Len(w2.events) :
                   /\ w2.events[i].e = "render"
                   /\ w2.events[i].result = "failed"
            THEN w2
            ELSE SetInterval(w3, SubdivisionInterval(w3.tempo, w3.subdivision))

\* start() that calls the hook without testing that one is registered: with
\* none, the call throws and the timer is never armed.
start_UnguardedHook(w) ==
    IF w.isPlaying THEN w
    ELSE LET w1 == resetPattern([w EXCEPT !.isPlaying = TRUE,
                                          !.currentBeat = 1,
                                          !.currentSubdivision = 0])
             w2 == playBeat(w1)
         IN IF ~w2.onBeatChange THEN w2
            ELSE SetInterval(NotifyBeatChange(w2),
                             SubdivisionInterval(w2.tempo, w2.subdivision))

\* start() that begins every session with the counters at zero.
start_ZeroesCounters(w) ==
    IF w.isPlaying THEN w
    ELSE LET w1 == resetPattern([w EXCEPT !.isPlaying = TRUE,
                                          !.currentBeat = 1,
                                          !.currentSubdivision = 0,
                                          !.barCount = 0,
                                          !.beatCount = 0])
             w2 == NotifyBeatChange(playBeat(w1))
         IN SetInterval(w2, SubdivisionInterval(w2.tempo, w2.subdivision))

start(w) ==
    IF w.isPlaying THEN w
    ELSE LET w1 == resetPattern([w EXCEPT !.isPlaying = TRUE,
                                          !.currentBeat = 1,
                                          !.currentSubdivision = 0])
             w2 == NotifyBeatChange(playBeat(w1))
         IN SetInterval(w2, SubdivisionInterval(w2.tempo, w2.subdivision))

\* stop() that leaves the subdivision where the last tick put it.
stop_KeepsSubdivision(w) ==
    IF ~w.isPlaying THEN w
    ELSE LET w1 == [w EXCEPT !.isPlaying = FALSE,
                             !.currentBeat = 1]
             w2 == IF w1.intervalId # 0
                   THEN [ClearInterval(w1, w1.intervalId)
                            EXCEPT !.intervalId = 0]
                   ELSE w1
         IN NotifyBeatChange(w2)

\* stop() that forgets the handle without clearing the timer.
stop_NoClear(w) ==
    IF ~w.isPlaying THEN w
    ELSE NotifyBeatChange([w EXCEPT !.isPlaying = FALSE,
                                    !.currentBeat = 1,
                                    !.currentSubdivision = 0,
                                    !.intervalId = 0])

\* stop() without its "not playing" guard.
stop_NoGuard(w) ==
    LET w1 == [w EXCEPT !.isPlaying = FALSE,
                        !.currentBeat = 1,
                        !.currentSubdivision = 0]
        w2 == IF w1.intervalId # 0
              THEN [ClearInterval(w1, w1.intervalId) EXCEPT !.intervalId = 0]
              ELSE w1
    IN NotifyBeatChange(w2)

stop(w) ==
    IF ~w.isPlaying THEN w
    ELSE LET w1 == [w EXCEPT !.isPlaying = FALSE,
                             !.currentBeat = 1,
                             !.currentSubdivision = 0]
             w2 == IF w1.intervalId # 0
                   THEN [ClearInterval(w1, w1.intervalId)
                            EXCEPT !.intervalId = 0]
                   ELSE w1
         IN NotifyBeatChange(w2)

togglePlayback(w) == IF w.isPlaying THEN stop(w) ELSE start(w)

\* nextBar() that flips the pattern phase one bar late (< for <=).
nextBar_LateFlip(w) ==
    LET w1 == IF w.mutePatternEnabled
              THEN LET bar == IF w.currentBar + 1 > 2 THEN 1
                              ELSE w.currentBar + 1
                   IN [w EXCEPT !.currentBar = bar,
                                !.isCurrentBarMuted = (bar = 2)]
              ELSE w
    IN  IF w1.patternMode = "pattern"
        THEN LET remaining == w1.patternBarsRemaining - 1 IN
             IF remaining < 0
             THEN IF w1.patternPhase = "active"
                  THEN [w1 EXCEPT !.patternPhase = "silent",
                                  !.patternBarsRemaining = w1.silentBarsPattern,
                                  !.isSilent = TRUE]
                  ELSE [w1 EXCEPT !.patternPhase = "active",
                                  !.patternBarsRemaining = w1.activeBars,
                                  !.isSilent = FALSE]
             ELSE [w1 EXCEPT !.patternBarsRemaining = remaining]
        ELSE w1

\* nextBar() that does not enter a phase whose length is not positive: it
\* begins its own phase again instead.
nextBar_SkipsEmptyPhase(w) ==
    LET w1 == IF w.mutePatternEnabled
              THEN LET bar == IF w.currentBar + 1 > 2 THEN 1
                              ELSE w.currentBar + 1
                   IN [w EXCEPT !.currentBar = bar,
                                !.isCurrentBarMuted = (bar = 2)]
              ELSE w
    IN  IF w1.patternMode = "pattern"
        THEN LET remaining == w1.patternBarsRemaining - 1 IN
             IF remaining <= 0
             THEN IF w1.patternPhase = "active"
                  THEN IF w1.silentBarsPattern <= 0
                       THEN [w1 EXCEPT !.patternBarsRemaining = w1.activeBars]
                       ELSE [w1 EXCEPT !.patternPhase = "silent",
                                       !.patternBarsRemaining =
                                           w1.silentBarsPattern,
                                       !.isSilent = TRUE]
                  ELSE IF w1.activeBars <= 0
                       THEN [w1 EXCEPT !.patternBarsRemaining =
                                           w1.silentBarsPattern]
                       ELSE [w1 EXCEPT !.patternPhase = "active",
                                       !.patternBarsRemaining = w1.activeBars,
                                       !.isSilent = FALSE]
             ELSE [w1 EXCEPT !.patternBarsRemaining = remaining]
        ELSE w1

\* nextBar() whose two-bar cycle never wraps back to bar 1.
nextBar_NoWrap(w) ==
    LET w1 == IF w.mutePatternEnabled
              THEN LET bar == IF w.currentBar + 1 > 2 THEN 2
                              ELSE w.currentBar + 1
                   IN [w EXCEPT !.currentBar = bar,
                                !.isCurrentBarMuted = (bar = 2)]
              ELSE w
    IN  IF w1.patternMode = "pattern"
        THEN LET remaining == w1.patternBarsRemaining - 1 IN
             IF remaining <= 0
             THEN IF w1.patternPhase = "active"
                  THEN [w1 EXCEPT !.patternPhase = "silent",
                                  !.patternBarsRemaining = w1.silentBarsPattern,
                                  !.isSilent = TRUE]
                  ELSE [w1 EXCEPT !.patternPhase = "active",
                                  !.patternBarsRemaining = w1.activeBars,
                                  !.isSilent = FALSE]
             ELSE [w1 EXCEPT !.patternBarsRemaining = remaining]
        ELSE w1

nextBar(w) ==
    LET w1 == IF w.mutePatternEnabled
              THEN LET bar == IF w.currentBar + 1 > 2 THEN 1
                              ELSE w.currentBar + 1
                   IN [w EXCEPT !.currentBar = bar,
                                !.isCurrentBarMuted = (bar = 2)]
              ELSE w
    IN  IF w1.patternMode = "pattern"
        THEN LET remaining == w1.patternBarsRemaining - 1 IN
             IF remaining <= 0
             THEN IF w1.patternPhase = "active"
                  THEN [w1 EXCEPT !.patternPhase = "silent",
                                  !.patternBarsRemaining = w1.silentBarsPattern,
                                  !.isSilent = TRUE]
                  ELSE [w1 EXCEPT !.patternPhase = "active",
                                  !.patternBarsRemaining = w1.activeBars,
                                  !.isSilent = FALSE]
             ELSE [w1 EXCEPT !.patternBarsRemaining = remaining]
        ELSE w1

\* nextBeat() that wraps one beat early (>= for >).
nextBeat_WrapEarly(w) ==
    LET w1 == [w EXCEPT !.currentBeat = @ + 1, !.beatCount = @ + 1]
        w2 == IF w1.currentBeat >= w1.beatsPerBar
              THEN nextBar([w1 EXCEPT !.currentBeat = 1, !.barCount = @ + 1])
              ELSE w1
    IN NotifyBeatChange(w2)

nextBeat(w) ==
    LET w1 == [w EXCEPT !.currentBeat = @ + 1, !.beatCount = @ + 1]
        w2 == IF w1.currentBeat > w1.beatsPerBar
              THEN nextBar([w1 EXCEPT !.currentBeat = 1, !.barCount = @ + 1])
              ELSE w1
    IN NotifyBeatChange(w2)

\* nextSubdivision() that plays the tick before the beat and the bar advance.
nextSubdivision_PlaysBeforeAdvance(w) ==
    LET w1 == playBeat([w EXCEPT !.currentSubdivision = @ + 1])
        w2 == IF w1.currentSubdivision >= SubdivisionsPerBeat(w1.subdivision)
              THEN nextBeat([w1 EXCEPT !.currentSubdivision = 0])
              ELSE w1
    IN NotifyBeatChange(w2)

\* nextSubdivision() that notifies only when the tick was not silenced.
nextSubdivision_NoHookWhenSilent(w) ==
    LET w1 == [w EXCEPT !.currentSubdivision = @ + 1]
        w2 == IF w1.currentSubdivision >= SubdivisionsPerBeat(w1.subdivision)
              THEN nextBeat([w1 EXCEPT !.currentSubdivision = 0])
              ELSE w1
        w3 == playBeat(w2)
    IN IF \E i \in 1..Len(w3.events) : w3.events[i].e = "silent"
       THEN w3
       ELSE NotifyBeatChange(w3)

nextSubdivision(w) ==
    LET w1 == [w EXCEPT !.currentSubdivision = @ + 1]
        w2 == IF w1.currentSubdivision >= SubdivisionsPerBeat(w1.subdivision)
              THEN nextBeat([w1 EXCEPT !.currentSubdivision = 0])
              ELSE w1
    IN NotifyBeatChange(playBeat(w2))

\* The clamp with one of its two bounds left out.
Clamp_NoFloor(t) == Min(MaxTempo, t)
Clamp_NoCeiling(t) == Max(MinTempo, t)

\* Math.max(30, Math.min(300, newTempo))
Clamp(t) == Max(MinTempo, Min(MaxTempo, t))

setTempo(w, newTempo) ==
    LET w1 == [w EXCEPT !.tempo = Clamp(newTempo)]
    IN IF w1.isPlaying THEN start(stop(w1)) ELSE w1

adjustTempo(w, change) == setTempo(w, w.tempo + change)

setBeatsPerBar(w, beats) ==
    LET w1 == resetPattern([w EXCEPT !.beatsPerBar = beats,
                                     !.currentBeat = 1])
    IN [w1 EXCEPT !.timeSignature.numerator = beats]

setTimeSignature(w, signature) ==
    LET parts == SplitSignature(signature)
        numerator == Number(parts[1])
        denominator == Number(parts[2])
    IN setBeatsPerBar([w EXCEPT !.timeSignature =
                           [numerator |-> numerator,
                            denominator |-> denominator]],
                      numerator)

setPatternMode(w, mode) == resetPattern([w EXCEPT !.patternMode = mode])

setMutePattern(w, enabled) ==
    resetPattern([w EXCEPT !.mutePatternEnabled = enabled])

setSubdivision(w, subdivision) == [w EXCEPT !.subdivision = subdivision]

setEmphasizedBeats(w, beats) == [w EXCEPT !.emphasizedBeats = beats]

setBeatSound(w, soundType) == [w EXCEPT !.beatSound = soundType]

resetCounters(w) == [w EXCEPT !.barCount = 0, !.beatCount = 0]


\* Math.round(60000 / avgInterval) over the consecutive differences of the
\* tap times; a zero average gives Infinity, which is no tempo (0 here).
TapEstimate(tapTimes) ==
    LET intervals == [i \in 1..(Len(tapTimes) - 1) |->
                          tapTimes[i + 1] - tapTimes[i]]
        total == SumSeq(intervals)
    IN IF total = 0 THEN 0
       ELSE RoundDiv(MsPerMinute * Len(intervals), total)

\* tapTempo() that applies its estimate without the range check.
tapTempo_NoRangeCheck(w, dateNow) ==
    LET pushed == Append(w.tapTimes, dateNow)
        kept == IF Len(pushed) > MaxTaps THEN Tail(pushed) ELSE pushed
        w1 == [w EXCEPT !.tapTimes = kept]
        newTempo == TapEstimate(kept)
        w2 == IF Len(kept) >= 2
              THEN setTempo(w1, newTempo)
              ELSE w1
    IN [w2 EXCEPT !.timeouts = Append(@, dateNow)]

tapTempo(w, dateNow) ==
    LET pushed == Append(w.tapTimes, dateNow)
        kept == IF Len(pushed) > MaxTaps THEN Tail(pushed) ELSE pushed
        w1 == [w EXCEPT !.tapTimes = kept]
        newTempo == TapEstimate(kept)
        w2 == IF Len(kept) >= 2 /\ newTempo >= MinTempo /\ newTempo <= MaxTempo
              THEN setTempo(w1, newTempo)
              ELSE w1
    IN [w2 EXCEPT !.timeouts = Append(@, dateNow)]

\* The setTimeout callback of the tap made at time tappedAt.
tapTimeout(w, tappedAt, dateNow) ==
    LET timeSinceLastTap == dateNow - tappedAt
        w1 == [w EXCEPT !.timeouts = Tail(@)]
    IN IF timeSinceLastTap >= TapIdleMs THEN [w1 EXCEPT !.tapTimes = <<>>]
       ELSE w1

-----------------------------------------------------------------------------
(* MicrophoneInput: the listening switch, the getUserMedia requests that   *)
(* startListening() calls are waiting on, the requestAnimationFrame        *)
(* callbacks that are pending, and the beat and tempo tracker.  An async   *)
(* method is one handler up to its await and another from the resolution   *)
(* of the awaited promise on.                                              *)
(*                                                                         *)
(* Levels (volume, thresholds) are in thousandths of full scale, times in  *)
(* milliseconds, tempoConfidence in tenths of a point, rounded down.  A    *)
(* spectrum is the analyser's frequencyData: one byte per bin; the null    *)
(* previousSpectrum of a new tracker is the empty sequence.                *)

\* Date.now() when the clock of the model reads t.
DateNow(t) == PageLoadedAt + t

NewMicrophoneInput ==
    [isInitialized |-> FALSE, isListening |-> FALSE,
     beatHistory |-> <<>>, lastBeatTime |-> 0,
     beatThreshold |-> 100,
     minBeatInterval |-> 100, maxBeatInterval |-> 2000,
     detectedTempo |-> 120, tempoHistory |-> <<>>, tempoConfidence |-> 0,
     detectionMode |-> "mixed", onsetThreshold |-> 50,
     previousSpectrum |-> <<>>,
     onBeatDetected |-> FALSE, onTempoDetected |-> FALSE,
     onVolumeUpdate |-> FALSE, onError |-> FALSE,
     requests |-> 0, frames |-> 0]

\* array.slice(-n)
Slice(s, n) == SubSeq(s, Max(1, Len(s) - n + 1), Len(s))

\* The thresholds of the detection mode, in hundred-thousandths.
getDetectionThresholds(w) ==
    LET mode == w.mic.detectionMode
        beat == w.mic.beatThreshold
        onset == w.mic.onsetThreshold
    IN CASE mode = "bass" ->
              [volume |-> beat * 80, frequency |-> beat * 50,
               onset |-> onset * 60]
         [] mode = "drums" ->
              [volume |-> beat * 120, frequency |-> beat * 90,
               onset |-> onset * 150]
         [] mode = "guitar" ->
              [volume |-> beat * 15, frequency |-> beat * 20,
               onset |-> onset * 5]
         [] OTHER ->
              [volume |-> beat * 20, frequency |-> beat * 30,
               onset |-> onset * 10]

\* volume / (avgRecentVolume + 0.001) > ratio, ratio in thousandths: with S
\* the sum of the n recent values, 1000 * volume * n > ratio * (1000 * S + n),
\* solved for S so that the products stay small.
VolumeIncreaseOver(volume, recentVolumes, ratio) ==
    LET n == Len(recentVolumes)
        x == n * (1000 * volume - ratio)
        d == 1000 * ratio
    IN x > 0 /\ SumSeq(recentVolumes) < (x + d - 1) \div d

detectBeatEnhanced_NoDebounce(w, heard, dateNow) ==
    LET thresholds == getDetectionThresholds(w)
    IN \/ 100 * heard.volume > thresholds.volume
       \/ 100 * heard.frequencyVolume > thresholds.frequency
       \/ 100 * heard.onsetStrength > thresholds.onset

detectBeatEnhanced_NoOnset(w, heard, dateNow) ==
    LET timeSinceLastBeat == dateNow - w.mic.lastBeatTime
        thresholds == getDetectionThresholds(w)
    IN IF timeSinceLastBeat < w.mic.minBeatInterval THEN FALSE
       ELSE \/ 100 * heard.volume > thresholds.volume
            \/ 100 * heard.frequencyVolume > thresholds.frequency

detectBeatEnhanced(w, heard, dateNow) ==
    LET timeSinceLastBeat == dateNow - w.mic.lastBeatTime
        thresholds == getDetectionThresholds(w)
        recentVolumes == Slice(w.mic.beatHistory, 5)
        byVolume == 100 * heard.volume > thresholds.volume
        byFrequency == 100 * heard.frequencyVolume > thresholds.frequency
        byOnset == 100 * heard.onsetStrength > thresholds.onset
        byIncrease(ratio) ==
            /\ Len(recentVolumes) >= 2
            /\ VolumeIncreaseOver(heard.volume, recentVolumes, ratio)
        methodCount ==
            (IF byVolume THEN 1 ELSE 0) + (IF byFrequency THEN 1 ELSE 0)
            + (IF byOnset THEN 1 ELSE 0) + (IF byIncrease(1300) THEN 1 ELSE 0)
    IN IF timeSinceLastBeat < w.mic.minBeatInterval THEN FALSE
       ELSE \/ byVolume
            \/ byIncrease(1500)
            \/ byFrequency
            \/ byOnset
            \/ methodCount >= 2

\* The least k in lo..hi with (k * n)^2 >= x, given that hi is one.
RECURSIVE LeastRoot(_, _, _, _)
LeastRoot(x, n, lo, hi) ==
    IF lo >= hi THEN hi
    ELSE LET mid == (lo + hi) \div 2
         IN IF (mid * n) * (mid * n) >= x THEN LeastRoot(x, n, lo, mid)
            ELSE LeastRoot(x, n, mid + 1, hi)

SumSquares(s) == SumSeq([i \in 1..Len(s) |-> s[i] * s[i]])

\* n^2 times the variance of s (n = Len(s)): n * sum of squares - (sum)^2.
ScaledVariance(s) == Len(s) * SumSquares(s) - SumSeq(s) * SumSeq(s)

\* 100 - 2 * standardDeviation cut to 0..100, in tenths rounded down:
\* 1000 - ceil(20 * sqrt(variance)) = 1000 - ceil(sqrt(400 * n^2 variance) / n)
calculateConfidence_NoGuard(w) ==
    LET h == w.mic.tempoHistory
        n == Len(h)
        x == 400 * ScaledVariance(h)
    IN [w EXCEPT !.mic.tempoConfidence =
            IF (1000 * n) * (1000 * n) < x THEN 0
            ELSE 1000 - LeastRoot(x, n, 0, 1000)]

calculateConfidence(w) ==
    LET h == w.mic.tempoHistory
        n == Len(h)
        x == 400 * ScaledVariance(h)
    IN IF n < 2 THEN [w EXCEPT !.mic.tempoConfidence = 0]
       ELSE [w EXCEPT !.mic.tempoConfidence =
                IF (1000 * n) * (1000 * n) < x THEN 0
                ELSE 1000 - LeastRoot(x, n, 0, 1000)]

\* The intervals between consecutive beats that calculateTempo keeps.
ValidIntervals(w) ==
    LET h == w.mic.beatHistory
        all == [i \in 1..(Len(h) - 1) |-> h[i + 1] - h[i]]
    IN SelectSeq(all, LAMBDA interval :
                          /\ interval >= w.mic.minBeatInterval
                          /\ interval <= w.mic.maxBeatInterval)

calculateTempo_NoEviction(w) ==
    LET intervals == ValidIntervals(w)
        newTempo == RoundDiv(60000 * Len(intervals), SumSeq(intervals))
        kept == Append(w.mic.tempoHistory, newTempo)
        w1 == calculateConfidence(
                  [w EXCEPT !.mic.tempoHistory = kept,
                            !.mic.detectedTempo =
                                RoundDiv(SumSeq(kept), Len(kept))])
    IN IF Len(w.mic.beatHistory) < 2 \/ intervals = <<>> THEN w
       ELSE IF newTempo >= 30 /\ newTempo <= 300
       THEN Emit(w1, [e |-> "onTempoDetected",
                      tempo |-> w1.mic.detectedTempo,
                      confidence |-> w1.mic.tempoConfidence])
       ELSE w

calculateTempo_LatestInterval(w) ==
    LET intervals == Slice(ValidIntervals(w), 1)
        newTempo == RoundDiv(60000 * Len(intervals), SumSeq(intervals))
        pushed == Append(w.mic.tempoHistory, newTempo)
        kept == IF Len(pushed) > 5 THEN Tail(pushed) ELSE pushed
        w1 == calculateConfidence(
                  [w EXCEPT !.mic.tempoHistory = kept,
                            !.mic.detectedTempo =
                                RoundDiv(SumSeq(kept), Len(kept))])
    IN IF Len(w.mic.beatHistory) < 2 \/ intervals = <<>> THEN w
       ELSE IF newTempo >= 30 /\ newTempo <= 300
       THEN Emit(w1, [e |-> "onTempoDetected",
                      tempo |-> w1.mic.detectedTempo,
                      confidence |-> w1.mic.tempoConfidence])
       ELSE w

calculateTempo_NoRangeCheck(w) ==
    LET intervals == ValidIntervals(w)
        newTempo == RoundDiv(60000 * Len(intervals), SumSeq(intervals))
        pushed == Append(w.mic.tempoHistory, newTempo)
        kept == IF Len(pushed) > 5 THEN Tail(pushed) ELSE pushed
        w1 == calculateConfidence(
                  [w EXCEPT !.mic.tempoHistory = kept,
                            !.mic.detectedTempo =
                                RoundDiv(SumSeq(kept), Len(kept))])
    IN IF Len(w.mic.beatHistory) < 2 \/ intervals = <<>> THEN w
       ELSE IF w1.mic.onTempoDetected
       THEN Emit(w1, [e |-> "onTempoDetected",
                      tempo |-> w1.mic.detectedTempo,
                      confidence |-> w1.mic.tempoConfidence])
       ELSE w1

calculateTempo(w) ==
    LET intervals == ValidIntervals(w)
        newTempo == RoundDiv(60000 * Len(intervals), SumSeq(intervals))
        pushed == Append(w.mic.tempoHistory, newTempo)
        kept == IF Len(pushed) > 5 THEN Tail(pushed) ELSE pushed
        w1 == calculateConfidence(
                  [w EXCEPT !.mic.tempoHistory = kept,
                            !.mic.detectedTempo =
                                RoundDiv(SumSeq(kept), Len(kept))])
    IN IF Len(w.mic.beatHistory) < 2 \/ intervals = <<>> THEN w
       ELSE IF newTempo >= 30 /\ newTempo <= 300
       THEN IF w1.mic.onTempoDetected
            THEN Emit(w1, [e |-> "onTempoDetected",
                           tempo |-> w1.mic.detectedTempo,
                           confidence |-> w1.mic.tempoConfidence])
            ELSE w1
       ELSE w

processBeat_KeepTenSeconds(w, dateNow) ==
    LET tenSecondsAgo == dateNow - 10000
        w1 == [w EXCEPT !.mic.lastBeatTime = dateNow,
                        !.mic.beatHistory =
                            SelectSeq(Append(@, dateNow),
                                      LAMBDA time : time >= tenSecondsAgo)]
        w2 == IF Len(w1.mic.beatHistory) >= 2 THEN calculateTempo(w1) ELSE w1
    IN IF w2.mic.onBeatDetected
       THEN Emit(w2, [e |-> "onBeatDetected", time |-> dateNow])
       ELSE w2

processBeat(w, dateNow) ==
    LET tenSecondsAgo == dateNow - 10000
        w1 == [w EXCEPT !.mic.lastBeatTime = dateNow,
                        !.mic.beatHistory =
                            SelectSeq(Append(@, dateNow),
                                      LAMBDA time : time > tenSecondsAgo)]
        w2 == IF Len(w1.mic.beatHistory) >= 2 THEN calculateTempo(w1) ELSE w1
    IN IF w2.mic.onBeatDetected
       THEN Emit(w2, [e |-> "onBeatDetected", time |-> dateNow])
       ELSE w2

\* The bins calculateFrequencyVolume averages in each detection mode; a
\* mode without an entry ('drums') falls back to the range of 'mixed'.
frequencyRanges(mode) ==
    CASE mode = "bass" -> [low |-> 0, high |-> 20]
      [] mode = "guitar" -> [low |-> 80, high |-> 160]
      [] OTHER -> [low |-> 0, high |-> 160]

calculateAverageVolume(frequencyData) ==
    (1000 * SumSeq(frequencyData)) \div (Len(frequencyData) * 255)

\* Bin i of the code is entry i + 1 of the sequence.
calculateFrequencyVolume(w, frequencyData) ==
    LET range == frequencyRanges(w.mic.detectionMode)
        bins == (range.low + 1)..Min(range.high, Len(frequencyData))
        sum == SumSeq([i \in 1..Len(frequencyData) |->
                          IF i \in bins THEN frequencyData[i] ELSE 0])
        count == Cardinality(bins)
    IN IF count > 0 THEN (1000 * sum) \div (count * 255) ELSE 0

\* The value calculateOnsetStrength returns and the object it leaves.
calculateOnsetStrength(w, frequencyData) ==
    IF w.mic.previousSpectrum = <<>>
    THEN [value |-> 0,
          w |-> [w EXCEPT !.mic.previousSpectrum =
                              [i \in 1..Len(frequencyData) |-> 0]]]
    ELSE LET onsetSum ==
                 SumSeq([i \in 1..Len(frequencyData) |->
                            Max(0, frequencyData[i]
                                       - w.mic.previousSpectrum[i])])
         IN [value |-> (50000 * onsetSum) \div (Len(frequencyData) * 255),
             w |-> [w EXCEPT !.mic.previousSpectrum = frequencyData]]

\* The features of a frame and the object calculating them leaves.  heard
\* is the frequencyData the analyser node yields, from which the code
\* calculates them, or, where no more of the spectrum matters, the three
\* features themselves.
calculateFeatures(w, heard) ==
    IF "frequencyData" \in DOMAIN heard
    THEN LET onset == calculateOnsetStrength(w, heard.frequencyData)
         IN [volume |-> calculateAverageVolume(heard.frequencyData),
             frequencyVolume |->
                 calculateFrequencyVolume(w, heard.frequencyData),
             onsetStrength |-> onset.value,
             w |-> onset.w]
    ELSE [volume |-> heard.volume,
          frequencyVolume |-> heard.frequencyVolume,
          onsetStrength |-> heard.onsetStrength,
          w |-> w]

\* One analysis frame.
analyzeAudio(w, heard, dateNow) ==
    IF ~w.mic.isListening THEN w
    ELSE LET features == calculateFeatures(w, heard)
             w1 == IF w.mic.onVolumeUpdate
                   THEN Emit(features.w, [e |-> "onVolumeUpdate",
                                          volume |-> features.volume])
                   ELSE features.w
             w2 == IF detectBeatEnhanced(w1, features, dateNow)
                   THEN processBeat(w1, dateNow)
                   ELSE w1
         IN Emit([w2 EXCEPT !.mic.frames = @ + 1],
                 [e |-> "requestAnimationFrame"])

\* startListening() from `this.isListening = true` to its return.
startListening_listen(w, heard, dateNow) ==
    Emit(analyzeAudio([w EXCEPT !.mic.isListening = TRUE], heard, dateNow),
         [e |-> "return", value |-> TRUE])

\* startListening() up to its await, or to its return if it does not wait.
startListening(w, heard, dateNow) ==
    IF w.mic.isListening
    THEN Emit(w, [e |-> "return", value |-> TRUE])
    ELSE IF ~w.mic.isInitialized
    THEN Emit([w EXCEPT !.mic.requests = @ + 1], [e |-> "getUserMedia"])
    ELSE startListening_listen(w, heard, dateNow)

\* getUserMedia resolves: requestMicrophoneAccess() finishes and returns
\* true, and the startListening() that awaited it goes on.
microphoneGranted(w, heard, dateNow) ==
    startListening_listen([w EXCEPT !.mic.requests = @ - 1,
                                    !.mic.isInitialized = TRUE],
                          heard, dateNow)

microphoneDenied_GoesOn(w) ==
    LET w1 == [w EXCEPT !.mic.requests = @ - 1]
        w2 == IF w1.mic.onError THEN Emit(w1, [e |-> "onError"]) ELSE w1
    IN Emit(analyzeAudio([w2 EXCEPT !.mic.isListening = TRUE],
                         Quiet, PageLoadedAt),
            [e |-> "return", value |-> TRUE])

\* getUserMedia rejects: requestMicrophoneAccess() reports the error and
\* returns false, and so does the startListening() that awaited it.
microphoneDenied(w) ==
    LET w1 == [w EXCEPT !.mic.requests = @ - 1]
        w2 == IF w1.mic.onError THEN Emit(w1, [e |-> "onError"]) ELSE w1
    IN Emit(w2, [e |-> "return", value |-> FALSE])

stopListening(w) == [w EXCEPT !.mic.isListening = FALSE]

\* A pending frame callback runs: () => this.analyzeAudio()
animationFrame(w, heard, dateNow) ==
    analyzeAudio([w EXCEPT !.mic.frames = @ - 1], heard, dateNow)

setMinBeatInterval(w, interval) == [w EXCEPT !.mic.minBeatInterval = interval]

setDetectionMode_StoresAny(w, mode) == [w EXCEPT !.mic.detectionMode = mode]

setDetectionMode(w, mode) ==
    IF mode \in {"bass", "drums", "guitar", "mixed"}
    THEN [w EXCEPT !.mic.detectionMode = mode]
    ELSE [w EXCEPT !.mic.detectionMode = "mixed"]

reset_KeepsLastBeatTime(w) ==
    [w EXCEPT !.mic.beatHistory = <<>>,
              !.mic.tempoHistory = <<>>,
              !.mic.detectedTempo = 120,
              !.mic.tempoConfidence = 0]

reset(w) ==
    [w EXCEPT !.mic.beatHistory = <<>>,
              !.mic.tempoHistory = <<>>,
              !.mic.detectedTempo = 120,
              !.mic.tempoConfidence = 0,
              !.mic.lastBeatTime = 0]

\* The caller wires its callbacks: microphoneInput.onError = ..., and so on.
registerCallbacks(w) ==
    [w EXCEPT !.mic.onBeatDetected = TRUE, !.mic.onTempoDetected = TRUE,
              !.mic.onVolumeUpdate = TRUE, !.mic.onError = TRUE]

-----------------------------------------------------------------------------
(* State after construction (new MetronomeCore(), init() done, no UI yet) *)

PatternIsReset(w) ==
    /\ w.currentBar = 1
    /\ w.isCurrentBarMuted = FALSE
    /\ w.patternPhase = "active"
    /\ w.patternBarsRemaining = w.activeBars
    /\ w.isSilent = FALSE

Constructed ==
    [isPlaying |-> FALSE,
     tempo |-> DefaultTempo,
     beatsPerBar |-> 4,
     currentBeat |-> 1,
     intervalId |-> 0,
     onBeatChange |-> FALSE,
     timeSignature |-> [numerator |-> 4, denominator |-> 4],
     subdivision |-> "quarter",
     currentSubdivision |-> 0,
     emphasizedBeats |-> {1},
     playSubdivisionSounds |-> FALSE,
     beatSound |-> "classic",
     barCount |-> 0,
     beatCount |-> 0,
     patternMode |-> "none",
     activeBars |-> 2,
     silentBarsPattern |-> 2,
     patternPhase |-> "active",
     patternBarsRemaining |-> 0,
     isSilent |-> FALSE,
     mutePatternEnabled |-> FALSE,
     currentBar |-> 1,
     isCurrentBarMuted |-> FALSE,
     tapTimes |-> <<>>,
     audio |-> "ready",
     mic |-> NewMicrophoneInput,
     timers |-> {},
     timeouts |-> <<>>,
     events |-> <<>>]

NoCall ==
    [op |-> "new", arg |-> 0, wasPlaying |-> FALSE, wasReset |-> FALSE,
     acceptedAt |-> 0, stopped |-> FALSE]

Init ==
    /\ m = Constructed
    /\ now = 0
    /\ last = NoCall
    /\ tickNo = 0
    /\ frameNo = 0

-----------------------------------------------------------------------------
(* Handlers.  Each starts with an empty trace and records itself in `last'. *)

Begin == [m EXCEPT !.events = <<>>]

Armed(w) == \E i \in 1..Len(w.events) : w.events[i].e = "setInterval"

\* processBeat ran between the two states: it alone sets lastBeatTime to
\* a clock reading.
ProcessedBeat(before, after) ==
    /\ after.mic.lastBeatTime # 0
    /\ after.mic.lastBeatTime # before.mic.lastBeatTime

Handler(op, arg, w) ==
    /\ m' = w
    /\ last' = [op |-> op, arg |-> arg, wasPlaying |-> m.isPlaying,
                wasReset |-> PatternIsReset(m),
                acceptedAt |-> IF ProcessedBeat(m, w)
                               THEN w.mic.lastBeatTime
                               ELSE last.acceptedAt,
                stopped |-> CASE op = "stopListening" -> TRUE
                              [] op = "startListening" -> FALSE
                              [] OTHER -> last.stopped]

\* this.core.onBeatChange = () => { this.updateDisplay(); }
RegisterHook ==
    /\ ~m.onBeatChange
    /\ Handler("onBeatChange=", 0, [Begin EXCEPT !.onBeatChange = TRUE])
    /\ UNCHANGED <<now, tickNo, frameNo>>

Start ==
    /\ Handler("start", 0, start(Begin))
    /\ UNCHANGED <<now, tickNo, frameNo>>

Stop ==
    /\ Handler("stop", 0, stop(Begin))
    /\ UNCHANGED <<now, tickNo, frameNo>>

TogglePlayback ==
    /\ Handler("togglePlayback", 0, togglePlayback(Begin))
    /\ UNCHANGED <<now, tickNo, frameNo>>

\* The setInterval callback of an armed timer: () => this.nextSubdivision()
Tick ==
    /\ m.beatCount < MaxBeatCount
    /\ \E t \in m.timers : Handler("tick", t.id, nextSubdivision(Begin))
    /\ UNCHANGED <<now, tickNo, frameNo>>

SetTempo ==
    /\ \E t \in TempoInputs : Handler("setTempo", t, setTempo(Begin, t))
    /\ UNCHANGED <<now, tickNo, frameNo>>

AdjustTempo ==
    /\ \E c \in TempoChanges : Handler("adjustTempo", c, adjustTempo(Begin, c))
    /\ UNCHANGED <<now, tickNo, frameNo>>

TapTempo ==
    /\ Len(m.timeouts) < MaxPendingTimeouts
    /\ Handler("tapTempo", now, tapTempo(Begin, now))
    /\ UNCHANGED <<now, tickNo, frameNo>>

TapTimeout ==
    /\ m.timeouts # <<>>
    /\ now >= Head(m.timeouts) + TapIdleMs
    /\ Handler("tapTimeout", Head(m.timeouts),
               tapTimeout(Begin, Head(m.timeouts), now))
    /\ UNCHANGED <<now, tickNo, frameNo>>

\* Time passes between two handlers; no code runs.
AdvanceTime ==
    /\ \E d \in TimeSteps :
           /\ now + d <= MaxNow
           /\ now' = now + d
           /\ Handler("wait", d, m)
    /\ UNCHANGED <<tickNo, frameNo>>

SetBeatsPerBar ==
    /\ \E b \in BeatsInputs :
           Handler("setBeatsPerBar", b, setBeatsPerBar(Begin, b))
    /\ UNCHANGED <<now, tickNo, frameNo>>

SetTimeSignature ==
    /\ \E s \in SignatureInputs :
           Handler("setTimeSignature", s, setTimeSignature(Begin, s))
    /\ UNCHANGED <<now, tickNo, frameNo>>

SetSubdivision ==
    /\ \E s \in SubdivisionInputs :
           Handler("setSubdivision", s, setSubdivision(Begin, s))
    /\ UNCHANGED <<now, tickNo, frameNo>>

ResetCounters ==
    /\ Handler("resetCounters", 0, resetCounters(Begin))
    /\ UNCHANGED <<now, tickNo, frameNo>>

\* The clock and its settings: no tap tempo, so time stands still.
Next ==
    \/ RegisterHook
    \/ Start
    \/ Stop
    \/ TogglePlayback
    \/ Tick
    \/ SetTempo
    \/ AdjustTempo
    \/ SetBeatsPerBar
    \/ SetTimeSignature
    \/ SetSubdivision
    \/ ResetCounters

Spec == Init /\ [][Next]_vars

\* The clock under tempo changes of every kind, taps included, with the
\* time signature and the subdivision left as constructed.
NextTempo ==
    \/ RegisterHook
    \/ Start
    \/ Stop
    \/ TogglePlayback
    \/ Tick
    \/ SetTempo
    \/ AdjustTempo
    \/ TapTempo
    \/ TapTimeout
    \/ AdvanceTime

SpecTempo == Init /\ [][NextTempo]_vars


-----------------------------------------------------------------------------
(* The pattern controls, with a short bar so that bars end often *)

SetPatternMode ==
    /\ \E mode \in PatternModeInputs :
           Handler("setPatternMode", mode, setPatternMode(Begin, mode))
    /\ UNCHANGED <<now, tickNo, frameNo>>

SetMutePattern ==
    /\ \E enabled \in BOOLEAN :
           Handler("setMutePattern", enabled, setMutePattern(Begin, enabled))
    /\ UNCHANGED <<now, tickNo, frameNo>>

\* this.core.activeBars = parseInt(e.target.value); this.core.resetPattern();
SetActiveBars ==
    /\ \E a \in PatternBarInputs :
           Handler("activeBars=", a,
                   resetPattern([Begin EXCEPT !.activeBars = a]))
    /\ UNCHANGED <<now, tickNo, frameNo>>

\* this.core.silentBarsPattern = parseInt(e.target.value); resetPattern();
SetSilentBarsPattern ==
    /\ \E b \in PatternBarInputs :
           Handler("silentBarsPattern=", b,
                   resetPattern([Begin EXCEPT !.silentBarsPattern = b]))
    /\ UNCHANGED <<now, tickNo, frameNo>>

SetOneBeatPerBar ==
    /\ Handler("setBeatsPerBar", 1, setBeatsPerBar(Begin, 1))
    /\ UNCHANGED <<now, tickNo, frameNo>>

NextPattern ==
    \/ RegisterHook
    \/ Start
    \/ Stop
    \/ Tick
    \/ SetOneBeatPerBar
    \/ SetPatternMode
    \/ SetMutePattern
    \/ SetActiveBars
    \/ SetSilentBarsPattern

SpecPattern == Init /\ [][NextPattern]_vars

-----------------------------------------------------------------------------
(* One undisturbed session: the settings are chosen before the first     *)
(* start(), the counters are zero when it is called, and nothing but the  *)
(* timer and stop() acts afterwards.                                       *)

InitFresh ==
    /\ \E b \in FreshBeats, s \in SubdivisionInputs :
           m = setSubdivision(setBeatsPerBar(Constructed, b), s)
    /\ now = 0
    /\ last = NoCall
    /\ tickNo = 0
    /\ frameNo = 0

FreshStart ==
    /\ m.barCount = 0 /\ m.beatCount = 0
    /\ Handler("start", 0, start(Begin))
    /\ tickNo' = IF Armed(m') THEN 0 ELSE tickNo
    /\ UNCHANGED <<now, frameNo>>

FreshTick ==
    /\ tickNo < MaxFreshTicks
    /\ \E t \in m.timers : Handler("tick", t.id, nextSubdivision(Begin))
    /\ tickNo' = tickNo + 1
    /\ UNCHANGED <<now, frameNo>>

NextFresh ==
    \/ FreshStart
    \/ FreshTick
    \/ Stop

SpecFresh == InitFresh /\ [][NextFresh]_vars

-----------------------------------------------------------------------------
(* setTempo over a whole range of inputs, on a stopped and a running clock *)

SetTempoWide ==
    /\ \E t \in WideTempoInputs : Handler("setTempo", t, setTempo(Begin, t))
    /\ UNCHANGED <<now, tickNo, frameNo>>

NextClamp ==
    \/ Start
    \/ Stop
    \/ SetTempoWide

SpecClamp == Init /\ [][NextClamp]_vars


-----------------------------------------------------------------------------
(* One undisturbed session under the muting strategies: the pattern       *)
(* lengths, the strategy switches, the bar length and the subdivision are  *)
(* set before start(), then the timer runs for MaxBars bars.               *)

InitBars ==
    /\ \E b \in FreshBeats, s \in SubdivisionInputs,
          a \in PatternLengths, z \in PatternLengths,
          mode \in PatternModeInputs, enabled \in BOOLEAN :
           m = setMutePattern(
                   setPatternMode(
                       resetPattern(
                           [resetPattern(
                                [setSubdivision(setBeatsPerBar(Constructed, b),
                                                s)
                                    EXCEPT !.activeBars = a])
                               EXCEPT !.silentBarsPattern = z]),
                       mode),
                   enabled)
    /\ now = 0
    /\ last = NoCall
    /\ tickNo = 0
    /\ frameNo = 0

BarTick ==
    /\ m.barCount < MaxBars
    /\ \E t \in m.timers : Handler("tick", t.id, nextSubdivision(Begin))
    /\ tickNo' = tickNo + 1
    /\ UNCHANGED <<now, frameNo>>

NextBars ==
    \/ FreshStart
    \/ BarTick
    \/ Stop

SpecBars == InitBars /\ [][NextBars]_vars

-----------------------------------------------------------------------------
(* The sound settings and the condition of the audio system *)

SetEmphasizedBeats ==
    /\ \E beats \in EmphasisInputs :
           Handler("setEmphasizedBeats", beats,
                   setEmphasizedBeats(Begin, beats))
    /\ UNCHANGED <<now, tickNo, frameNo>>

SetBeatSound ==
    /\ \E soundType \in BeatSoundInputs :
           Handler("setBeatSound", soundType, setBeatSound(Begin, soundType))
    /\ UNCHANGED <<now, tickNo, frameNo>>

\* this.core.playSubdivisionSounds = e.target.checked;
SetPlaySubdivisionSounds ==
    /\ \E checked \in BOOLEAN :
           Handler("playSubdivisionSounds=", checked,
                   [Begin EXCEPT !.playSubdivisionSounds = checked])
    /\ UNCHANGED <<now, tickNo, frameNo>>

\* The audio system changes condition between two handlers: the context is
\* lost, its calls start to throw, or it works again.  No code runs.
AudioChanges ==
    /\ \E c \in AudioConditions \ {m.audio} :
           Handler("audio", c, [m EXCEPT !.audio = c])
    /\ UNCHANGED <<now, tickNo, frameNo>>

NextSound ==
    \/ Start
    \/ Tick
    \/ SetSubdivision
    \/ SetEmphasizedBeats
    \/ SetBeatSound
    \/ SetPlaySubdivisionSounds
    \/ SetMutePattern
    \/ SetOneBeatPerBar

SpecSound == Init /\ [][NextSound]_vars

-----------------------------------------------------------------------------
(* Tapping: taps half a second or so apart, up to five within the idle    *)
(* time, on a stopped and on a running clock                               *)

TapOften ==
    /\ Len(m.timeouts) < MaxTapsPending
    /\ Handler("tapTempo", now, tapTempo(Begin, now))
    /\ UNCHANGED <<now, tickNo, frameNo>>

TapWait ==
    /\ \E d \in TapSteps :
           /\ now + d <= MaxTapNow
           /\ now' = now + d
           /\ Handler("wait", d, m)
    /\ UNCHANGED <<tickNo, frameNo>>

TapTick ==
    /\ m.beatCount < MaxTapBeats
    /\ \E t \in m.timers : Handler("tick", t.id, nextSubdivision(Begin))
    /\ UNCHANGED <<now, tickNo, frameNo>>

NextTap ==
    \/ Start
    \/ TapTick
    \/ TapOften
    \/ TapTimeout
    \/ TapWait

SpecTap == Init /\ [][NextTap]_vars

-----------------------------------------------------------------------------
(* The microphone tracker beside the clock *)

RegisterCallbacks ==
    /\ ~m.mic.onError
    /\ Handler("registerCallbacks", 0, registerCallbacks(Begin))
    /\ UNCHANGED <<now, tickNo, frameNo>>

StartListening ==
    /\ m.mic.frames < MaxFrames
    /\ m.mic.requests < MaxRequests
    /\ \E heard \in HeardInputs :
           Handler("startListening", heard,
                   startListening(Begin, heard, DateNow(now)))
    /\ UNCHANGED <<now, tickNo, frameNo>>

StopListening ==
    /\ Handler("stopListening", 0, stopListening(Begin))
    /\ UNCHANGED <<now, tickNo, frameNo>>

MicrophoneGranted ==
    /\ m.mic.requests > 0
    /\ m.mic.frames < MaxFrames
    /\ \E heard \in HeardInputs :
           Handler("getUserMedia", TRUE,
                   microphoneGranted(Begin, heard, DateNow(now)))
    /\ UNCHANGED <<now, tickNo, frameNo>>

MicrophoneDenied ==
    /\ m.mic.requests > 0
    /\ Handler("getUserMedia", FALSE, microphoneDenied(Begin))
    /\ UNCHANGED <<now, tickNo, frameNo>>

AnimationFrame ==
    /\ m.mic.frames > 0
    /\ \E heard \in HeardInputs :
           Handler("animationFrame", heard,
                   animationFrame(Begin, heard, DateNow(now)))
    /\ UNCHANGED <<now, tickNo, frameNo>>

SetDetectionMode ==
    /\ \E mode \in DetectionModeInputs :
           Handler("setDetectionMode", mode, setDetectionMode(Begin, mode))
    /\ UNCHANGED <<now, tickNo, frameNo>>

NextMic ==
    \/ RegisterCallbacks
    \/ StartListening
    \/ StopListening
    \/ MicrophoneGranted
    \/ MicrophoneDenied
    \/ AnimationFrame
    \/ SetDetectionMode
    \/ Start
    \/ Stop

SpecMic == Init /\ [][NextMic]_vars

\* The browser runs every callback passed to requestAnimationFrame.
SpecFrames == Init /\ [][NextMic]_vars /\ WF_vars(AnimationFrame)

-----------------------------------------------------------------------------
(* The tracker while it listens: the callbacks are wired, the microphone   *)
(* was granted, and MaxTrackerFrames frame callbacks run, FrameGaps apart  *)
(* when they hear an onset and the shortest gap apart when they hear       *)
(* nothing.                                                                *)

Listening ==
    [microphoneGranted(
         startListening(registerCallbacks(Constructed), Quiet, PageLoadedAt),
         Quiet, PageLoadedAt)
        EXCEPT !.events = <<>>]

InitTracker ==
    /\ m = Listening
    /\ now = 0
    /\ last = NoCall
    /\ tickNo = 0
    /\ frameNo = 0

TrackerFrame ==
    /\ m.mic.frames > 0
    /\ frameNo < MaxTrackerFrames
    /\ \E d \in FrameGaps, heard \in {Quiet, Loud} :
           /\ heard = Quiet => \A g \in FrameGaps : d <= g
           /\ now' = now + d
           /\ Handler("animationFrame", heard,
                      animationFrame(Begin, heard, DateNow(now + d)))
    /\ frameNo' = frameNo + 1
    /\ UNCHANGED tickNo

SetMinBeatInterval ==
    /\ \E interval \in MinBeatIntervalInputs :
           Handler("setMinBeatInterval", interval,
                   setMinBeatInterval(Begin, interval))
    /\ UNCHANGED <<now, tickNo, frameNo>>

Reset ==
    /\ Handler("reset", 0, reset(Begin))
    /\ UNCHANGED <<now, tickNo, frameNo>>

NextTracker ==
    \/ TrackerFrame
    \/ SetMinBeatInterval
    \/ Reset

SpecTracker == InitTracker /\ [][NextTracker]_vars

-----------------------------------------------------------------------------
(* A run of at most MaxOnsets onsets, OnsetGaps apart, into a tracker that *)
(* listens and has detected nothing yet, with the shortest interval that   *)
(* counts changed in between.                                              *)

Onset ==
    /\ m.mic.frames > 0
    /\ frameNo < MaxOnsets
    /\ \E d \in (IF frameNo = 0 THEN {0} ELSE OnsetGaps) :
           /\ now' = now + d
           /\ Handler("animationFrame", d,
                      animationFrame(Begin, Loud, DateNow(now + d)))
    /\ frameNo' = frameNo + 1
    /\ UNCHANGED tickNo

NextOnsets ==
    \/ Onset
    \/ SetMinBeatInterval

SpecOnsets == InitTracker /\ [][NextOnsets]_vars

-----------------------------------------------------------------------------
(* The clock while the audio system fails and recovers, with short bars    *)
(* so that the pattern engine moves                                        *)

NextAudio ==
    \/ Start
    \/ Stop
    \/ Tick
    \/ SetBeatSound
    \/ AudioChanges
    \/ SetOneBeatPerBar
    \/ SetPatternMode

SpecAudio == Init /\ [][NextAudio]_vars

-----------------------------------------------------------------------------
(* The notification hook beside every kind of tick: audible, muted by     *)
(* either strategy, suppressed as a subdivision                            *)

NextHook ==
    \/ RegisterHook
    \/ Start
    \/ Stop
    \/ Tick
    \/ SetSubdivision
    \/ SetOneBeatPerBar
    \/ SetPatternMode
    \/ SetMutePattern

SpecHook == Init /\ [][NextHook]_vars

-----------------------------------------------------------------------------
(* The detector in each detection mode: MaxDetectFrames frames, inside and *)
(* outside the debounce window, that hear one feature alone, all, or none  *)

InitDetect ==
    /\ \E mode \in DetectionModeInputs :
           m = setDetectionMode(Listening, mode)
    /\ now = 0
    /\ last = NoCall
    /\ tickNo = 0
    /\ frameNo = 0

DetectFrame ==
    /\ m.mic.frames > 0
    /\ frameNo < MaxDetectFrames
    /\ \E d \in DetectGaps, heard \in DetectInputs :
           /\ now' = now + d
           /\ Handler("animationFrame", heard,
                      animationFrame(Begin, heard, DateNow(now + d)))
    /\ frameNo' = frameNo + 1
    /\ UNCHANGED tickNo

NextDetect ==
    \/ DetectFrame

SpecDetect == InitDetect /\ [][NextDetect]_vars

-----------------------------------------------------------------------------
(* The tracker from its first frame on, with the spectrum the analyser     *)
(* node yields in each frame                                               *)

InitSpectrum ==
    /\ m = registerCallbacks(Constructed)
    /\ now = 0
    /\ last = NoCall
    /\ tickNo = 0
    /\ frameNo = 0

SpectrumStart ==
    /\ frameNo < MaxSpectrumFrames
    /\ m.mic.requests < MaxRequests
    /\ \E heard \in Spectra :
           Handler("startListening", heard,
                   startListening(Begin, heard, DateNow(now)))
    /\ frameNo' = IF m.mic.isInitialized /\ ~m.mic.isListening
                  THEN frameNo + 1 ELSE frameNo
    /\ UNCHANGED <<now, tickNo>>

SpectrumGranted ==
    /\ m.mic.requests > 0
    /\ frameNo < MaxSpectrumFrames
    /\ \E heard \in Spectra :
           Handler("getUserMedia", heard,
                   microphoneGranted(Begin, heard, DateNow(now)))
    /\ frameNo' = frameNo + 1
    /\ UNCHANGED <<now, tickNo>>

SpectrumFrame ==
    /\ m.mic.frames > 0
    /\ frameNo < MaxSpectrumFrames
    /\ \E heard \in Spectra :
           Handler("animationFrame", heard,
                   animationFrame(Begin, heard, DateNow(now + 400)))
    /\ now' = now + 400
    /\ frameNo' = IF m.mic.isListening THEN frameNo + 1 ELSE frameNo
    /\ UNCHANGED tickNo

NextSpectrum ==
    \/ SpectrumStart
    \/ SpectrumGranted
    \/ SpectrumFrame
    \/ StopListening

SpecSpectrum == InitSpectrum /\ [][NextSpectrum]_vars

-----------------------------------------------------------------------------
(* A clock that keeps running in pattern mode, with phase lengths of any   *)
(* sign: the interval timer goes on firing, and the counters are reset     *)
(* now and then.                                                           *)

InitPhases ==
    /\ \E b \in PhaseBeats, a \in PhaseLengths, z \in PhaseLengths :
           m = [start(
                    setPatternMode(
                        resetPattern(
                            [resetPattern(
                                 [setBeatsPerBar(Constructed, b)
                                     EXCEPT !.activeBars = a])
                                EXCEPT !.silentBarsPattern = z]),
                        "pattern"))
                   EXCEPT !.events = <<>>]
    /\ now = 0
    /\ last = NoCall
    /\ tickNo = 0
    /\ frameNo = 0

PhaseTick ==
    /\ m.barCount < MaxPhaseBars
    /\ \E t \in m.timers : Handler("tick", t.id, nextSubdivision(Begin))
    /\ UNCHANGED <<now, tickNo, frameNo>>

NextPhases ==
    \/ PhaseTick
    \/ ResetCounters

\* setInterval fires its callback again and again until it is cleared.
SpecPhases == InitPhases /\ [][NextPhases]_vars /\ WF_vars(PhaseTick)


-----------------------------------------------------------------------------
(* Properties *)

Position(w) == <<w.currentBeat, w.currentSubdivision>>

Counters(w) == <<w.barCount, w.beatCount>>

\* The dispatches of a tick recorded in a trace: what playBeat decided.
Dispatches(events) ==
    {i \in 1..Len(events) : events[i].e \in {"render", "silent", "suppressed"}}

Renders(events) == {i \in 1..Len(events) : events[i].e = "render"}

Notifications(events) ==
    {i \in 1..Len(events) : events[i].e = "onBeatChange"}

Armings(events) == {i \in 1..Len(events) : events[i].e = "setInterval"}

\* C1: setTempo(t) stores 30 for t below 30, 300 for t above 300 and t
\* itself for every other integer t, and completes in every case.
C1_SetTempoClamps ==
    last.op = "setTempo" =>
        m.tempo = IF last.arg < 30 THEN 30
                  ELSE IF last.arg > 300 THEN 300
                  ELSE last.arg

C1_Witness ==
    /\ last.op = "setTempo"
    /\ last.arg < 30
    /\ last.wasPlaying
    /\ m.tempo = 30

\* C2: in every reachable state currentBeat is in [1, beatsPerBar] and
\* currentSubdivision is in [0, subdivisionsPerBeat - 1] for the subdivision
\* mode selected now.
C2_PositionInRange ==
    /\ m.currentBeat \in 1..m.beatsPerBar
    /\ m.currentSubdivision \in 0..(SubdivisionsPerBeat(m.subdivision) - 1)

\* C3: in a session started with the counters at zero and no setting change,
\* with B beats per bar and S subdivisions per beat, tick n (n = 0 being the
\* tick start() fires) is at beat 1 + (floor(n / S) mod B), subdivision
\* n mod S, and the bar counter has gone up once for every B * S ticks.
C3_FreshSequence ==
    m.isPlaying =>
        LET B == m.beatsPerBar
            S == CASE m.subdivision = "quarter" -> 1
                   [] m.subdivision = "eighth" -> 2
                   [] m.subdivision = "sixteenth" -> 4
        IN /\ m.currentBeat = 1 + ((tickNo \div S) % B)
           /\ m.currentSubdivision = tickNo % S
           /\ m.barCount = tickNo \div (B * S)

C3_Witness ==
    /\ m.isPlaying
    /\ m.beatsPerBar = 4
    /\ m.subdivision = "quarter"
    /\ tickNo = 9
    /\ Position(m) = <<2, 0>>
    /\ m.barCount = 2

\* C4: a change of tempo (setTempo, adjustTempo, an accepted tap), of the
\* time signature (setTimeSignature, setBeatsPerBar) or of the subdivision
\* made while Running leaves the clock as stop(); change; start() would:
\* Running, at (1,0), pattern reset, one freshly armed timer whose period
\* comes from the new settings.
C4_ChangeRestarts ==
    LET accepted ==
            /\ Len(m.tapTimes) >= 2
            /\ TapEstimate(m.tapTimes) \in MinTempo..MaxTempo
        changed ==
            \/ last.op \in {"setTempo", "adjustTempo", "setTimeSignature",
                            "setBeatsPerBar", "setSubdivision"}
            \/ last.op = "tapTempo" /\ accepted
    IN (changed /\ last.wasPlaying) =>
           /\ m.isPlaying
           /\ Position(m) = <<1, 0>>
           /\ PatternIsReset(m)
           /\ Cardinality(Armings(m.events)) = 1
           /\ \E t \in m.timers :
                  /\ m.timers = {t}
                  /\ t.id = m.intervalId
                  /\ t.period.num * m.tempo * SubdivisionsPerBeat(m.subdivision)
                         = MsPerMinute * t.period.den

\* C5: whenever the clock is Running, the armed timer's period is
\* (60000 / tempo) / subdivisionsPerBeat for the tempo and the subdivision
\* mode in force now.
C5_PeriodIsCurrent ==
    m.isPlaying =>
        \A t \in m.timers :
            t.period.num * m.tempo * SubdivisionsPerBeat(m.subdivision)
                = MsPerMinute * t.period.den

\* C6: at most one periodic timer is armed, one is armed exactly when
\* isPlaying is true (it is the one intervalId names), and start() on a
\* Running clock arms nothing and changes nothing.
C6_TimerInvariant ==
    /\ Cardinality(m.timers) <= 1
    /\ (m.timers # {}) <=> m.isPlaying
    /\ \A t \in m.timers : t.id = m.intervalId
    /\ (last.op = "start" /\ last.wasPlaying) => m.events = <<>>

C6_OneTimer ==
    /\ []C6_TimerInvariant
    /\ [][(m.isPlaying /\ last'.op = "start") => m' = Begin]_vars

C6_Witness ==
    /\ last.op = "start"
    /\ last.wasPlaying
    /\ m.isPlaying
    /\ Cardinality(m.timers) = 1
    /\ m.beatCount > 0

\* C7: while the clock is Stopped no tick occurs: no timer is armed, the
\* timer callback does not run, and until start() (or togglePlayback) is
\* called the position stays put, no renderer call is made and the counters
\* change only by resetCounters.
C7_NoTickAfterStop ==
    /\ [](~m.isPlaying => (m.timers = {} /\ last.op # "tick"))
    /\ [][(~m.isPlaying /\ last'.op \notin {"start", "togglePlayback"}) =>
             /\ last'.op # "tick"
             /\ Position(m') = Position(m)
             /\ Renders(m'.events) = {}
             /\ (last'.op # "resetCounters" => Counters(m') = Counters(m))]_vars

C7_Witness ==
    /\ last.op = "stop"
    /\ last.wasPlaying
    /\ ~m.isPlaying
    /\ m.beatCount > 0

\* C8: stop() on a Running clock calls the registered notification hook
\* exactly once; stop() on a clock that is already Stopped (a second stop()
\* in a row in particular) changes nothing and notifies nobody.
C8_StopIdempotent ==
    [][last'.op = "stop" =>
          IF m.isPlaying
          THEN Cardinality(Notifications(m'.events))
                   = (IF m.onBeatChange THEN 1 ELSE 0)
          ELSE m' = Begin]_vars

C8_Witness ==
    /\ last.op = "stop"
    /\ ~last.wasPlaying
    /\ m.onBeatChange
    /\ m.beatCount > 0
    /\ m.events = <<>>

\* C9: start() on a Stopped clock leaves it Running at (1,0) with the
\* pattern engine reset, having dispatched exactly one tick, at beat 1
\* subdivision 0, and having armed the periodic timer only after that,
\* whatever the pattern state was before.
C9_StartContract ==
    (last.op = "start" /\ ~last.wasPlaying) =>
        /\ m.isPlaying
        /\ Position(m) = <<1, 0>>
        /\ m.currentBar = 1 /\ ~m.isCurrentBarMuted
        /\ m.patternPhase = "active" /\ ~m.isSilent
        /\ m.patternBarsRemaining = m.activeBars
        /\ Cardinality(Dispatches(m.events)) = 1
        /\ Cardinality(Armings(m.events)) = 1
        /\ \A i \in Dispatches(m.events) :
               /\ m.events[i].beat = 1
               /\ m.events[i].sub = 0
               /\ \A j \in Armings(m.events) : i < j
        /\ Cardinality(m.timers) = 1

C9_Witness ==
    /\ last.op = "start"
    /\ ~last.wasPlaying
    /\ ~last.wasReset
    /\ m.beatCount > 0
    /\ m.patternMode = "pattern"
    /\ m.mutePatternEnabled

\* C10: the stored tempo is an integer in [30, 300] in every reachable
\* state, whatever setTempo, adjustTempo and tapTempo calls were made.
C10_TempoInRange == m.tempo \in 30..300

C10_Witness ==
    /\ last.op = "adjustTempo"
    /\ last.arg > 0
    /\ m.tempo = 300

\* The ticks of a bar: beatsPerBar beats of SubdivisionsPerBeat ticks each.
TicksPerBar(w) == w.beatsPerBar * SubdivisionsPerBeat(w.subdivision)

\* Bars completed since the latest start(), from the count of timer ticks.
BarsSinceStart == tickNo \div TicksPerBar(m)

\* What playBeat decided in the handler that ran last.
Silenced(w) == \E i \in Dispatches(w.events) : w.events[i].e = "silent"

\* C11: in pattern mode with activeBars = a and silentBarsPattern = s, both
\* positive, counting bars from start(): bars 1..a are audible, bars
\* a+1..a+s are silent, and the cycle repeats with period a+s.
C11_PatternCycle ==
    (m.isPlaying /\ m.patternMode = "pattern") =>
        LET k == BarsSinceStart % (m.activeBars + m.silentBarsPattern) IN
        /\ m.isSilent <=> (k >= m.activeBars)
        /\ (last.op \in {"start", "tick"} /\ ~m.mutePatternEnabled) =>
               (Silenced(m) <=> (k >= m.activeBars))

C11_Witness ==
    /\ m.isPlaying
    /\ m.patternMode = "pattern"
    /\ ~m.mutePatternEnabled
    /\ m.activeBars = 2 /\ m.silentBarsPattern = 1
    /\ BarsSinceStart = 5
    /\ last.op = "tick"
    /\ Silenced(m)

\* C12: with the simple mute pattern enabled, counting bars from start():
\* every odd bar is audible and every even bar is muted, for every
\* beatsPerBar and every subdivision mode.
C12_MuteParity ==
    (m.isPlaying /\ m.mutePatternEnabled) =>
        /\ m.isCurrentBarMuted <=> (BarsSinceStart % 2 = 1)
        /\ m.currentBar = (BarsSinceStart % 2) + 1
        /\ (last.op \in {"start", "tick"} /\ m.patternMode = "none") =>
               (Silenced(m) <=> (BarsSinceStart % 2 = 1))

C12_Witness ==
    /\ m.isPlaying
    /\ m.mutePatternEnabled
    /\ m.patternMode = "none"
    /\ m.beatsPerBar = 3
    /\ m.subdivision = "sixteenth"
    /\ BarsSinceStart = 3
    /\ last.op = "tick"
    /\ Silenced(m)

\* C13: a tick is silenced if and only if the simple mute pattern is enabled
\* and the current bar is muted, or pattern mode is selected and the pattern
\* is in its silent phase; a strategy that is switched off never silences a
\* tick, whatever state it was left in.
C13_SilenceRule ==
    (last.op \in {"start", "tick"} /\ Dispatches(m.events) # {}) =>
        /\ Silenced(m) <=> \/ (m.mutePatternEnabled /\ m.isCurrentBarMuted)
                           \/ (m.patternMode = "pattern" /\ m.isSilent)
        /\ (~m.mutePatternEnabled /\ m.patternMode # "pattern") =>
               ~Silenced(m)

C13_Witness ==
    /\ last.op = "tick"
    /\ Silenced(m)
    /\ m.mutePatternEnabled /\ ~m.isCurrentBarMuted
    /\ m.patternMode = "pattern" /\ m.isSilent

\* The class of sound a render produced: the classic click and the plain
\* click by their pitch, a synthesized sound by its accent.
SoundClass(ev) ==
    IF "frequency" \in DOMAIN ev
    THEN CASE ev.frequency = 1200 -> "emphasized"
           [] ev.frequency = 800 -> "mainBeat"
           [] OTHER -> "subdivision"
    ELSE IF ev.isEmphasized THEN "emphasized" ELSE "mainBeat"

\* No muting strategy silences the current bar.
Unmuted(w) ==
    /\ ~(w.mutePatternEnabled /\ w.isCurrentBarMuted)
    /\ ~(w.patternMode = "pattern" /\ w.isSilent)

\* C14: a tick at (b, k) that is rendered sounds emphasized if and only if
\* b is an emphasized beat and k = 0, as a main beat if and only if b is not
\* emphasized and k = 0, and as a subdivision for every k > 0, emphasized
\* beat or not.
C14_Classification ==
    last.op \in {"start", "tick"} =>
        \A i \in Renders(m.events) :
            LET ev == m.events[i] IN
            SoundClass(ev) =
                (IF ev.sub = 0 /\ ev.beat \in m.emphasizedBeats
                 THEN "emphasized"
                 ELSE IF ev.sub = 0 THEN "mainBeat" ELSE "subdivision")

\* C15: a tick at a subdivision k # 0 while playSubdivisionSounds is false
\* renders nothing, and every unmuted tick at k = 0 invokes the renderer
\* exactly once.
C15_SubdivisionSuppression ==
    (last.op \in {"start", "tick"} /\ Dispatches(m.events) # {}) =>
        /\ (m.currentSubdivision # 0 /\ ~m.playSubdivisionSounds) =>
               Renders(m.events) = {}
        /\ (m.currentSubdivision = 0 /\ Unmuted(m)) =>
               Cardinality(Renders(m.events)) = 1

C15_Witness ==
    /\ last.op = "tick"
    /\ m.subdivision = "sixteenth"
    /\ m.currentSubdivision = 3
    /\ ~m.playSubdivisionSounds
    /\ Unmuted(m)
    /\ m.mutePatternEnabled
    /\ \E i \in Dispatches(m.events) : m.events[i].e = "suppressed"

\* C16: the idle timeout never removes a tap made less than 3 seconds before
\* the timeout runs its check: the history is cleared only when at least 3
\* seconds have passed since the most recent tap.
C16_RecentTapsKept ==
    [][last'.op = "tapTimeout" =>
          \A i \in 1..Len(m.tapTimes) :
              (now' - m.tapTimes[i] < TapIdleMs) =>
                  \E j \in 1..Len(m'.tapTimes) :
                      m'.tapTimes[j] = m.tapTimes[i]]_vars

\* C17: after each tap the history holds at most the 4 most recent taps in
\* order; with at least 2 of them, BPM = round(60000 / mean of the
\* consecutive differences) becomes the tempo if it is in [30, 300], and
\* otherwise tempo, running state, position and timer are unchanged; taps
\* at 0, 500, 1000 and 1500 ms give tempo 120.
C17_TapEstimate ==
    [][last'.op = "tapTempo" =>
          LET pushed == Append(m.tapTimes, now)
              taps == m'.tapTimes
              n == Len(taps)
              span == taps[n] - taps[1]
              \* b = round(60000 * (n - 1) / span), without dividing
              IsBpm(b) == /\ (2 * b - 1) * span <= 2 * MsPerMinute * (n - 1)
                          /\ 2 * MsPerMinute * (n - 1) < (2 * b + 1) * span
          IN  /\ n = Min(MaxTaps, Len(pushed))
              /\ \A i \in 1..n : taps[i] = pushed[Len(pushed) - n + i]
              /\ IF n >= 2 /\ \E b \in MinTempo..MaxTempo : IsBpm(b)
                 THEN IsBpm(m'.tempo)
                 ELSE /\ m'.tempo = m.tempo
                      /\ m'.isPlaying = m.isPlaying
                      /\ Position(m') = Position(m)
                      /\ m'.timers = m.timers
              /\ (taps = <<0, 500, 1000, 1500>>) => (m'.tempo = 120)]_vars

C17_Witness ==
    /\ last.op = "tapTempo"
    /\ m.tapTimes = <<0, 500, 1000, 1500>>
    /\ m.tempo = 120
    /\ m.isPlaying
    /\ Position(m) = <<1, 0>>
    /\ m.beatCount > 0

\* The analysis loops that are alive: the pending frame callbacks that will
\* each schedule a successor when they run.
ActiveLoops(w) == IF w.mic.isListening THEN w.mic.frames ELSE 0

\* C18: at most one microphone analysis loop is active at any time, however
\* startListening and stopListening calls interleave with frame callbacks
\* and with pending permission requests.
C18_OneAnalysisLoop == ActiveLoops(m) <= 1

\* The renders of a trace that produced no sound: the Web Audio calls threw,
\* or there was no audio context to call.
FailedRenders(events) ==
    {i \in Renders(events) : events[i].result # "played"}

PatternState(w) ==
    <<w.currentBar, w.isCurrentBarMuted, w.patternPhase,
      w.patternBarsRemaining, w.isSilent>>

\* C19: a render that fails on a tick, the first tick fired inside start()
\* included, does not stop the clock: afterwards the clock is running with
\* its timer armed, and position, counters and pattern state are what they
\* would be had the render succeeded.
C19_RenderFailureContained ==
    [][(last'.op \in {"start", "tick"} /\ FailedRenders(m'.events) # {}) =>
          LET working == [Begin EXCEPT !.audio = "ready"]
              succeeded == IF last'.op = "start" THEN start(working)
                           ELSE nextSubdivision(working)
          IN  /\ m'.isPlaying
              /\ Cardinality(m'.timers) = 1
              /\ \E t \in m'.timers : t.id = m'.intervalId
              /\ last'.op = "tick" => m'.timers = m.timers
              /\ m'.timers = succeeded.timers
              /\ Position(m') = Position(succeeded)
              /\ Counters(m') = Counters(succeeded)
              /\ PatternState(m') = PatternState(succeeded)]_vars

C19_Witness ==
    /\ last.op = "start"
    /\ ~last.wasPlaying
    /\ m.beatSound = "drum"
    /\ \E i \in FailedRenders(m.events) : m.events[i].result = "failed"
    /\ m.isPlaying
    /\ m.timers # {}

\* C20: within a timer tick no call of the notification hook comes before
\* the tick's audible decision (render, suppress or silence) has been made,
\* on ticks that advance the beat or wrap the bar as on all others.
C20_HookAfterDecision ==
    last.op = "tick" =>
        \A n \in Notifications(m.events) :
            \A d \in Dispatches(m.events) : d < n

\* C21: every tick, audible, muted by either pattern or suppressed as a
\* subdivision, calls the notification hook after the position has been
\* advanced and the tick dispatched: the position the hook observes is the
\* position of the tick just dispatched.
C21_HookSeesTick ==
    (m.onBeatChange /\ (last.op = "tick" \/
                        (last.op = "start" /\ ~last.wasPlaying))) =>
        /\ Cardinality(Dispatches(m.events)) = 1
        /\ \A d \in Dispatches(m.events) :
               /\ \E n \in Notifications(m.events) : d < n
               /\ \A n \in Notifications(m.events) :
                      /\ m.events[n].beat = m.events[d].beat
                      /\ m.events[n].sub = m.events[d].sub
                      /\ m.events[n].beat = m.currentBeat
                      /\ m.events[n].sub = m.currentSubdivision

C21_Witness ==
    /\ m.onBeatChange
    /\ last.op = "tick"
    /\ Silenced(m)
    /\ m.subdivision = "eighth"
    /\ m.currentSubdivision = 1
    /\ \E n \in Notifications(m.events) :
           /\ m.events[n].beat = 1
           /\ m.events[n].sub = 1

\* C22: the pattern state is the reset state right after start() and right
\* after every parameter change (setTempo, setBeatsPerBar, setTimeSignature,
\* setSubdivision, setPatternMode, setMutePattern, a new activeBars or
\* silentBarsPattern), whether the clock is running or stopped.
C22_ResetOnChange ==
    \/ last.op \in {"setTempo", "setBeatsPerBar", "setTimeSignature",
                     "setSubdivision", "setPatternMode", "setMutePattern",
                     "activeBars=", "silentBarsPattern="}
    \/ (last.op = "start" /\ ~last.wasPlaying)
    => PatternIsReset(m)

\* The object and the trace of a handler with everything about the hook
\* taken out: whether one is registered, and the calls made to it.
WithoutHook(w) ==
    LET NotHook(ev) == ev.e # "onBeatChange" IN
    [w EXCEPT !.onBeatChange = FALSE, !.events = SelectSeq(@, NotHook)]

\* The handler a step ran, run again on another object.
Replay(op, arg, w) ==
    CASE op = "start" -> start(w)
      [] op = "stop" -> stop(w)
      [] op = "tick" -> nextSubdivision(w)
      [] op = "setSubdivision" -> setSubdivision(w, arg)
      [] op = "setBeatsPerBar" -> setBeatsPerBar(w, arg)
      [] op = "setPatternMode" -> setPatternMode(w, arg)
      [] op = "setMutePattern" -> setMutePattern(w, arg)
      [] OTHER -> w

\* C27: the clock behaves the same with and without a registered hook:
\* every start, stop, tick and setting change leaves isPlaying, position,
\* pattern state, counters and timer, and makes the timer and renderer
\* calls, that it would with the hook the other way round, and none fails
\* when the hook is unset.
C27_HookIndependence ==
    [][last'.op # "onBeatChange=" =>
          LET other == [Begin EXCEPT !.onBeatChange = ~m.onBeatChange] IN
          WithoutHook(m') = WithoutHook(Replay(last'.op, last'.arg, other))]_vars

C27_Witness ==
    /\ ~m.onBeatChange
    /\ last.op = "tick"
    /\ m.isPlaying
    /\ m.barCount > 0
    /\ m.mutePatternEnabled
    /\ Renders(m.events) # {}

DetectionModes == {"bass", "drums", "guitar", "mixed"}

\* C28: setDetectionMode stores its input if that is one of bass, drums,
\* guitar, mixed and stores 'mixed' for any other input, so the stored
\* detection mode is one of the four in every reachable state.
C28_DetectionModeRecognised ==
    /\ m.mic.detectionMode \in DetectionModes
    /\ last.op = "setDetectionMode" =>
           m.mic.detectionMode =
               IF last.arg \in DetectionModes THEN last.arg ELSE "mixed"

C28_Witness ==
    /\ last.op = "setDetectionMode"
    /\ last.arg \notin DetectionModes
    /\ m.mic.detectionMode = "mixed"
    /\ m.mic.isListening

EventsNamed(events, name) == {i \in 1..Len(events) : events[i].e = name}

\* C25: when getUserMedia rejects, onError is called once (if the caller
\* registered it), the tracker's initialized and listening flags stay as
\* they were, the startListening() that waited returns false, no frame
\* callback is requested, and a tracker that is not listening afterwards
\* asks for the microphone again on the next startListening() and listens
\* once that request is granted.
C25_AcquisitionFailure ==
    [][(last'.op = "getUserMedia" /\ last'.arg = FALSE) =>
          /\ Cardinality(EventsNamed(m'.events, "onError"))
                 = IF m.mic.onError THEN 1 ELSE 0
          /\ m'.mic.isInitialized = m.mic.isInitialized
          /\ m'.mic.isListening = m.mic.isListening
          /\ m'.events[Len(m'.events)] = [e |-> "return", value |-> FALSE]
          /\ EventsNamed(m'.events, "requestAnimationFrame") = {}
          /\ m'.mic.frames = m.mic.frames
          /\ ~m'.mic.isListening =>
                 LET asked == startListening([m' EXCEPT !.events = <<>>],
                                             Quiet, DateNow(now'))
                     granted == microphoneGranted(
                                    [asked EXCEPT !.events = <<>>],
                                    Quiet, DateNow(now'))
                 IN /\ m'.mic.isInitialized
                        \/ EventsNamed(asked.events, "getUserMedia") # {}
                    /\ m'.mic.isInitialized => asked.mic.isListening
                    /\ granted.mic.isInitialized /\ granted.mic.isListening]_vars

C25_Witness ==
    /\ last.op = "getUserMedia" /\ last.arg = FALSE
    /\ m.mic.onError
    /\ ~m.mic.isInitialized /\ ~m.mic.isListening
    /\ EventsNamed(m.events, "onError") # {}
    /\ m.mic.requests = 0

\* processBeat ran in the handler that left this trace (the tracker's
\* callbacks are registered while it is watched).
Accepted(events) == EventsNamed(events, "onBeatDetected") # {}

\* C30: after every processBeat the beat history is in non-decreasing
\* order, its newest entry is the onset just processed, every entry is
\* less than 10 seconds older than the newest, and the history is the one
\* before with entries dropped from its old end only and the onset added.
C30_BeatWindow ==
    [][Accepted(m'.events) =>
          LET before == m.mic.beatHistory
              after == m'.mic.beatHistory
              newest == after[Len(after)]
          IN /\ after # <<>>
             /\ newest = DateNow(now')
             /\ \A i \in 1..(Len(after) - 1) : after[i] <= after[i + 1]
             /\ \A i \in 1..Len(after) : newest - after[i] < 10000
             /\ \E k \in 0..Len(before) :
                    after = Append(SubSeq(before, k + 1, Len(before)),
                                   DateNow(now'))]_vars

C30_Witness ==
    /\ Accepted(m.events)
    /\ now = 12500
    /\ Len(m.mic.beatHistory) = 4
    /\ m.mic.beatHistory[1] = DateNow(5000)
    /\ m.mic.beatHistory[4] = DateNow(12500)

\* C26: a detection is accepted only minBeatInterval or more after the
\* detection accepted before it: the timestamp processBeat appends is at
\* least the minBeatInterval then in force later than the timestamp it
\* appended the time before, whatever was heard in the frames in between.
C26_Debounce ==
    [][Accepted(m'.events) =>
          \/ last.acceptedAt = 0
          \/ DateNow(now') - last.acceptedAt >= m'.mic.minBeatInterval]_vars

\* C26 as amended: the same of every two detections with no reset() between
\* them, where the earlier one is the newest entry of the beat history and
\* the tracker's lastBeatTime.
C26_DebounceSinceReset ==
    [][Accepted(m'.events) =>
          LET before == m.mic.beatHistory
          IN /\ DateNow(now') - m.mic.lastBeatTime >= m'.mic.minBeatInterval
             /\ before # <<>> =>
                    /\ before[Len(before)] = last.acceptedAt
                    /\ m.mic.lastBeatTime = last.acceptedAt
                    /\ DateNow(now') - last.acceptedAt
                           >= m'.mic.minBeatInterval]_vars

C26_Witness ==
    /\ Accepted(m.events)
    /\ m.mic.minBeatInterval = 600
    /\ Len(m.mic.beatHistory) >= 2
    /\ LET h == m.mic.beatHistory IN h[Len(h)] - h[Len(h) - 1] = 800

\* calculateTempo took a new BPM value into the tempo history in the
\* handler that left this trace.
TempoUpdated(events) == EventsNamed(events, "onTempoDetected") # {}

\* d is Math.round of the mean of the sequence s.
IsRoundedMean(d, s) ==
    /\ 2 * Len(s) * d - Len(s) <= 2 * SumSeq(s)
    /\ 2 * SumSeq(s) < 2 * Len(s) * d + Len(s)

\* C29: the tempo history never holds more than 5 entries, each update
\* adds the new BPM value at its end and evicts the oldest entry if there
\* were 5, nothing else but reset() changes it, every entry and
\* detectedTempo are in [30,300], and after each update detectedTempo is
\* the rounded mean of the tempo history.
C29_TempoWindow ==
    [][LET before == m.mic.tempoHistory
           after == m'.mic.tempoHistory
       IN /\ Len(after) <= 5
          /\ \A i \in 1..Len(after) : after[i] >= 30 /\ after[i] <= 300
          /\ m'.mic.detectedTempo >= 30 /\ m'.mic.detectedTempo <= 300
          /\ TempoUpdated(m'.events) =>
                 /\ after # <<>>
                 /\ SubSeq(after, 1, Len(after) - 1) =
                        (IF Len(before) = 5 THEN Tail(before) ELSE before)
                 /\ IsRoundedMean(m'.mic.detectedTempo, after)
          /\ ~TempoUpdated(m'.events) =>
                 \/ after = before /\ m'.mic.detectedTempo = m.mic.detectedTempo
                 \/ last'.op = "reset" /\ after = <<>>]_vars

C29_Witness ==
    /\ TempoUpdated(m.events)
    /\ frameNo = 7
    /\ Len(m.mic.tempoHistory) = 5
    /\ Len(m.mic.beatHistory) = 7
    /\ m.mic.tempoHistory[1] # m.mic.tempoHistory[5]
    /\ m.mic.detectedTempo # m.mic.tempoHistory[5]

\* The consecutive intervals of a beat history that lie within lo..hi.
InRange(h, lo, hi) ==
    {i \in 1..(Len(h) - 1) : h[i + 1] - h[i] >= lo /\ h[i + 1] - h[i] <= hi}

\* bpm is Math.round(60000 / (total / count)).
IsRoundedBpm(bpm, total, count) ==
    /\ 2 * bpm * total - total <= 2 * 60000 * count
    /\ 2 * 60000 * count < 2 * bpm * total + total

\* Math.round(60000 / (total / count)) is within [30,300]: the quotient is
\* at least 29.5 and below 300.5.
BpmInRange(total, count) ==
    /\ 59 * total <= 2 * 60000 * count
    /\ 2 * 60000 * count < 601 * total

\* Five onsets 500, 505, 495 and 500 ms apart, the first when the page has
\* been open for t0 ms.
ExampleOnsets(t0) ==
    <<DateNow(t0), DateNow(t0 + 500), DateNow(t0 + 1005), DateNow(t0 + 1500),
      DateNow(t0 + 2000)>>

\* C24: five onsets 500, 505, 495, 500 ms apart into a reset tracker leave
\* detectedTempo = 120 and tempoConfidence above 90; and every onset that
\* updates the tempo adds BPM = round(60000 / mean of the consecutive
\* intervals of the beat history within [minBeatInterval, maxBeatInterval])
\* to the tempo history and reports the rounded mean of the tempo history.
C24_TempoFromOnsets ==
    [][Accepted(m'.events) =>
          LET h == m'.mic.beatHistory
              valid == InRange(h, m'.mic.minBeatInterval,
                               m'.mic.maxBeatInterval)
              total == SumSeq([i \in 1..(Len(h) - 1) |->
                                  IF i \in valid THEN h[i + 1] - h[i] ELSE 0])
              tempos == m'.mic.tempoHistory
          IN /\ h = ExampleOnsets(0) =>
                    /\ m'.mic.detectedTempo = 120
                    /\ m'.mic.tempoConfidence > 900
             /\ TempoUpdated(m'.events) <=>
                    /\ valid # {}
                    /\ BpmInRange(total, Cardinality(valid))
             /\ TempoUpdated(m'.events) =>
                    /\ IsRoundedBpm(tempos[Len(tempos)], total,
                                    Cardinality(valid))
                    /\ IsRoundedMean(m'.mic.detectedTempo, tempos)
                    /\ \A i \in EventsNamed(m'.events, "onTempoDetected") :
                           m'.events[i].tempo = m'.mic.detectedTempo]_vars

C24_Witness ==
    /\ Accepted(m.events)
    /\ m.mic.beatHistory = ExampleOnsets(0)
    /\ m.mic.tempoHistory = <<120, 119, 120, 120>>
    /\ m.mic.detectedTempo = 120
    /\ m.mic.tempoConfidence > 900

\* n^2 times the variance of s, as the sum of the squared differences of
\* every two entries.
PairwiseSpread(s) ==
    SumSeq([k \in 1..(Len(s) * Len(s)) |->
               LET i == ((k - 1) \div Len(s)) + 1
                   j == ((k - 1) % Len(s)) + 1
               IN IF i < j THEN (s[i] - s[j]) * (s[i] - s[j]) ELSE 0])

\* c is max(0, min(100, 100 - 2 * stddev(s))) in tenths, rounded down:
\* with r = 20 * stddev(s) = sqrt(400 * PairwiseSpread(s)) / Len(s),
\* c = 1000 when r = 0, c = 0 when r > 999, else 999 - c < r <= 1000 - c.
IsConfidence(c, s) ==
    LET n == Len(s)
        x == 400 * PairwiseSpread(s)
    IN /\ c >= 0 /\ c <= 1000
       /\ c = 1000 <=> x = 0
       /\ c < 1000 => ((999 - c) * n) * ((999 - c) * n) < x
       /\ c > 0 => x <= ((1000 - c) * n) * ((1000 - c) * n)

\* C23: after every tempo update tempoConfidence is
\* max(0, min(100, 100 - 2 * stddev(tempoHistory))) of the tempo history,
\* also of one with a single entry, and it is within [0,100] always.
C23_ConfidenceFormula ==
    /\ m.mic.tempoConfidence >= 0 /\ m.mic.tempoConfidence <= 1000
    /\ TempoUpdated(m.events) =>
           IsConfidence(m.mic.tempoConfidence, m.mic.tempoHistory)

\* C23 as amended: the formula gives tempoConfidence after every tempo
\* update that leaves two or more entries in the tempo history; with a
\* single entry tempoConfidence is 0; it is within [0,100] always.
C23_ConfidenceOfTwoOrMore ==
    /\ m.mic.tempoConfidence >= 0 /\ m.mic.tempoConfidence <= 1000
    /\ TempoUpdated(m.events) =>
           IF Len(m.mic.tempoHistory) >= 2
           THEN IsConfidence(m.mic.tempoConfidence, m.mic.tempoHistory)
           ELSE m.mic.tempoConfidence = 0

C23_Witness ==
    /\ TempoUpdated(m.events)
    /\ Len(m.mic.tempoHistory) >= 3
    /\ m.mic.tempoConfidence > 0
    /\ m.mic.tempoConfidence < 900

\* C31: when an onset is processed and no consecutive interval of the beat
\* history lies within [minBeatInterval, maxBeatInterval], or the BPM of
\* those that do lies outside [30,300], then tempoHistory, detectedTempo
\* and tempoConfidence stay as they were and onTempoDetected is not
\* called, while the onset is the newest entry of the beat history and
\* onBeatDetected is called with it.
C31_NoTempoFromBadIntervals ==
    [][ProcessedBeat(m, m') =>
          LET h == m'.mic.beatHistory
              valid == InRange(h, m'.mic.minBeatInterval,
                               m'.mic.maxBeatInterval)
              total == SumSeq([i \in 1..(Len(h) - 1) |->
                                  IF i \in valid THEN h[i + 1] - h[i] ELSE 0])
              bpmInRange == BpmInRange(total, Cardinality(valid))
          IN (valid = {} \/ ~bpmInRange) =>
                 /\ m'.mic.tempoHistory = m.mic.tempoHistory
                 /\ m'.mic.detectedTempo = m.mic.detectedTempo
                 /\ m'.mic.tempoConfidence = m.mic.tempoConfidence
                 /\ ~TempoUpdated(m'.events)
                 /\ h # <<>> /\ h[Len(h)] = DateNow(now')
                 /\ Cardinality(EventsNamed(m'.events, "onBeatDetected")) = 1
                 /\ \A i \in EventsNamed(m'.events, "onBeatDetected") :
                        m'.events[i].time = DateNow(now')]_vars

\* An onset 2500 ms after two that gave 120 BPM, once minBeatInterval is 600.
C31_Witness ==
    /\ Accepted(m.events)
    /\ ~TempoUpdated(m.events)
    /\ m.mic.beatHistory = <<DateNow(0), DateNow(500), DateNow(3000)>>
    /\ m.mic.minBeatInterval = 600
    /\ m.mic.tempoHistory = <<120>>
    /\ m.mic.detectedTempo = 120

\* Two onsets 150 ms apart: 400 BPM.
C31_WitnessTooFast ==
    /\ Accepted(m.events)
    /\ ~TempoUpdated(m.events)
    /\ m.mic.beatHistory = <<DateNow(0), DateNow(150)>>
    /\ m.mic.minBeatInterval = 100
    /\ m.mic.tempoHistory = <<>>

\* C35: reset() empties beatHistory and tempoHistory, sets detectedTempo to
\* 120 and tempoConfidence and lastBeatTime to 0, and changes nothing else
\* (isListening, isInitialized, thresholds, interval limits, detection
\* mode); the first onset processed after it updates no tempo.
C35_Reset ==
    [][/\ last'.op = "reset" =>
              /\ m'.mic = [m.mic EXCEPT !.beatHistory = <<>>,
                                        !.tempoHistory = <<>>,
                                        !.detectedTempo = 120,
                                        !.tempoConfidence = 0,
                                        !.lastBeatTime = 0]
              /\ [m' EXCEPT !.mic = m.mic] = Begin
       /\ (ProcessedBeat(m, m') /\ m.mic.beatHistory = <<>>) =>
              /\ m'.mic.beatHistory = <<DateNow(now')>>
              /\ ~TempoUpdated(m'.events)
              /\ m'.mic.tempoHistory = m.mic.tempoHistory
              /\ m'.mic.detectedTempo = m.mic.detectedTempo
              /\ m'.mic.tempoConfidence = m.mic.tempoConfidence]_vars

\* reset() called on a listening tracker after it accepted onsets and its
\* shortest interval was changed.
C35_Witness ==
    /\ last.op = "reset"
    /\ last.acceptedAt = DateNow(800)
    /\ m.mic.beatHistory = <<>>
    /\ m.mic.lastBeatTime = 0
    /\ m.mic.detectedTempo = 120
    /\ m.mic.minBeatInterval = 600
    /\ m.mic.isListening

\* How many of the conditions hold.
HowMany(conditions) == SumSeq([i \in 1..Len(conditions) |->
                                  IF conditions[i] THEN 1 ELSE 0])

C32_WitnessNoDetection ==
    /\ last.op = "animationFrame"
    /\ last.arg = OnsetOnly
    /\ m.mic.detectionMode = "bass"
    /\ Len(m.mic.beatHistory) = 2
    /\ DateNow(now) - m.mic.lastBeatTime = 400

-----------------------------------------------------------------------------
(* C33 *)

\* The handler that has just run analysed a frame.
Analysed == EventsNamed(m.events, "requestAnimationFrame") # {}

\* The sum of the positive bin increases from one spectrum to the next.
RECURSIVE PositiveIncrease(_, _, _)
PositiveIncrease(before, after, n) ==
    IF n = 0 THEN 0
    ELSE PositiveIncrease(before, after, n - 1)
         + (IF after[n] > before[n] THEN after[n] - before[n] ELSE 0)

\* C33: after every handler that analysed a frame, the very first one
\* included, the stored previous spectrum is the spectrum of that frame;
\* and the onset strength of a frame that finds a previous spectrum stored
\* is the normalised sum of the positive bin increases over it, in
\* thousandths.
C33_PreviousSpectrum ==
    [][ Analysed' =>
          /\ m'.mic.previousSpectrum = last'.arg.frequencyData
          /\ m.mic.previousSpectrum # <<>> =>
                 calculateFeatures(m, last'.arg).onsetStrength
                     = (50000 * PositiveIncrease(m.mic.previousSpectrum,
                                                 last'.arg.frequencyData,
                                                 BufferLength))
                           \div (BufferLength * 255) ]_vars

-----------------------------------------------------------------------------
(* C34 *)

\* C34: in every reachable state isSilent is true exactly when patternPhase
\* is "silent", isCurrentBarMuted is true exactly when currentBar is 2, and
\* currentBar is 1 or 2.
C34_FlagsFollowState ==
    /\ m.isSilent <=> (m.patternPhase = "silent")
    /\ m.isCurrentBarMuted <=> (m.currentBar = 2)
    /\ m.currentBar \in {1, 2}

\* A tick has ended a bar into the silent phase and into bar 2 at once.
C34_Witness ==
    /\ last.op = "tick"
    /\ m.isSilent
    /\ m.patternPhase = "silent"
    /\ m.isCurrentBarMuted
    /\ m.currentBar = 2

-----------------------------------------------------------------------------
(* C36 *)

\* C36: whenever the clock is not playing, the beat position is beat 1,
\* subdivision 0.
C36_StoppedAtOrigin == ~m.isPlaying => Position(m) = <<1, 0>>

\* stop() has just ended a session in which beats had advanced.
C36_Witness ==
    /\ last.op = "stop"
    /\ last.wasPlaying
    /\ ~m.isPlaying
    /\ m.beatCount > 0
    /\ Position(m) = <<1, 0>>

-----------------------------------------------------------------------------
(* C37 *)

\* C37: in a session with no setting change, a tick that stays inside the
\* bar of the dispatch before it (the position it leaves is not beat 1,
\* subdivision 0) is silenced by the pattern engine exactly if that dispatch
\* was: all ticks of one bar are silenced or none is.
C37_MutingConstantInBar ==
    [][ (last'.op = "tick" /\ last.op \in {"start", "tick"}
         /\ Position(m') # <<1, 0>>) =>
            (Silenced(m') <=> Silenced(m)) ]_vars

\* The last tick of a silenced bar of three beats in sixteenths, after an
\* audible bar.
C37_Witness ==
    /\ last.op = "tick"
    /\ m.isPlaying
    /\ m.beatsPerBar = 3
    /\ m.subdivision = "sixteenth"
    /\ Position(m) = <<3, 3>>
    /\ BarsSinceStart = 1
    /\ Silenced(m)

-----------------------------------------------------------------------------
(* C39 *)

\* C39: barCount and beatCount change only in a tick, which adds 1 to
\* beatCount when it completes a beat (it leaves subdivision 0) and 1 to
\* barCount when that beat wraps the bar (it leaves beat 1), and in
\* resetCounters, which sets both to 0; every other operation leaves both
\* as they were.
C39_CountersOnlyByTicks ==
    [][ LET advanced == m'.currentSubdivision = 0
            wrapped == advanced /\ m'.currentBeat = 1
        IN  CASE last'.op = "tick" ->
                   /\ m'.beatCount = m.beatCount + (IF advanced THEN 1 ELSE 0)
                   /\ m'.barCount = m.barCount + (IF wrapped THEN 1 ELSE 0)
              [] last'.op = "resetCounters" -> Counters(m') = <<0, 0>>
              [] OTHER -> Counters(m') = Counters(m) ]_vars

\* A later session starts with the counts of the sessions before it.
C39_Witness ==
    /\ last.op = "start"
    /\ ~last.wasPlaying
    /\ m.isPlaying
    /\ m.barCount > 0
    /\ m.beatCount > m.barCount

-----------------------------------------------------------------------------
(* C38 *)

\* C38: in pattern mode, for every activeBars and silentBarsPattern, zero
\* and negative included, the phase changes only in a tick that ends a bar,
\* so each phase lasts at least one bar, and on a clock whose timer fires
\* for ever the pattern is in the active phase infinitely often and in the
\* silent phase infinitely often: neither phase lasts for ever.
C38_PhasesAlternate ==
    /\ [][ m'.patternPhase # m.patternPhase =>
               (last'.op = "tick" /\ m'.barCount = m.barCount + 1) ]_vars
    /\ ([]<><<PhaseTick>>_vars) =>
           /\ []<>(m.patternPhase = "active")
           /\ []<>(m.patternPhase = "silent")

\* With activeBars = 0 and a negative silentBarsPattern, two bars have ended
\* and the pattern is back in its active phase.
C38_Witness ==
    /\ last.op = "tick"
    /\ m.activeBars = 0
    /\ m.silentBarsPattern < 0
    /\ m.barCount = 2
    /\ m.beatCount = 2 * m.beatsPerBar
    /\ m.patternPhase = "active"
    /\ m.patternBarsRemaining = 0

-----------------------------------------------------------------------------
(* C40 *)

\* What a frame callback does when it analyses: the three notifications and
\* the request for the next frame.
AnalysisEvents(events) ==
    EventsNamed(events, "onVolumeUpdate")
        \cup EventsNamed(events, "onBeatDetected")
        \cup EventsNamed(events, "onTempoDetected")
        \cup EventsNamed(events, "requestAnimationFrame")

\* C40: after stopListening() with no startListening() since, at most one
\* frame callback is pending; a frame callback that runs then analyses
\* nothing, notifies nobody and requests no further frame; and eventually no
\* frame callback is pending, unless startListening() is called again.
C40_LoopStops ==
    /\ [](last.stopped => m.mic.frames <= 1)
    /\ [][ (last.stopped /\ last'.op = "animationFrame") =>
               /\ AnalysisEvents(m'.events) = {}
               /\ m'.mic.frames = m.mic.frames - 1 ]_vars
    /\ [](last.stopped => <>(~last.stopped \/ m.mic.frames = 0))

====
